---- MODULE Spec2Model ----
(***************************************************************************)
(* Model of the per-session retrieval-and-answer pipeline of the PCCC      *)
(* chatbot: PdfProcessingService (ingestion, query, reset over the         *)
(* in-memory userSessions map) and LLMService (the lazily created model    *)
(* client and generateResponse).                                           *)
(*                                                                         *)
(* One step of the model is one run of JavaScript between two awaits:      *)
(* everything a handler does synchronously is a single action, and every   *)
(* await (provider call, timer race, backoff wait) is a position of the    *)
(* call at which other calls may run.                                      *)
(***************************************************************************)
EXTENDS Integers, Sequences, FiniteSets, TLC

VARIABLES
    apiKey,        \* OPENAI_API_KEY is configured (process.env), fixed per run
    userSessions,  \* pdfProcessingService.ts: Map<string, UserSession>
    issued,        \* number of session ids generated so far (uuidv4 is fresh)
    pdfLlm,        \* pdfProcessingService.ts: let llm (0 = null, 1 = client)
    up,            \* the processPdfBuffer calls and where each one stands
    qry,           \* the query requests and where each one stands
    llm,           \* llmService.ts: let llm (0 = null, else the instance)
    constructed,   \* number of ChatOpenAI instances LLMService has constructed
    gen,           \* the initializeLLM / generateResponse calls
    srch,          \* the last retrieval call: its arguments and what it returned
    found,         \* the last SearchService call: its arguments and its result
    build,         \* the VectorStoreService.createVectorStore call and where it stands
    sampled,       \* _processInternal: the chunk positions last handed to the index
    applied,       \* the last call of a helper without side effect: arguments, value
    now,           \* the clock read by new Date(), in hours
    store,         \* sessionService.ts: Map<string, UserSession>
    storeIssued,   \* number of session ids SessionService has generated
    ret            \* the last SessionService call: operation, id, return value

vars == <<apiKey, userSessions, issued, pdfLlm, up, qry, llm, constructed, gen,
          srch, found, build, sampled, applied, now, store, storeIssued, ret>>
ingestVars == <<userSessions, issued, pdfLlm, up, qry>>
llmVars == <<llm, constructed, gen>>
searchVars == <<srch, found>>
buildVars == <<build, sampled, applied>>
storeVars == <<store, storeIssued, ret>>
coreVars == <<apiKey, ingestVars, llmVars, now, storeVars>>
serviceVars == <<coreVars, buildVars>>

----------------------------------------------------------------------------
(* Bounds *)
MaxSessions == 2        \* session ids that can be generated
MaxUploads == 2         \* processPdfBuffer calls
MaxQueries == 1         \* query requests
MaxCallers == 2         \* initializeLLM / generateResponse calls

SessionIds == 1..MaxSessions
Calls == 1..MaxUploads
Queries == 1..MaxQueries
Callers == 1..MaxCallers

----------------------------------------------------------------------------
(* Values *)
Null == "null"
NoId == 0               \* sessionId absent (undefined / '')
StaleId == -1           \* a sessionId the map does not hold
UnknownId == -2         \* the literal 'unknown' of the internal failure result

\* the document uploaded by the c-th call
FileOf(c) == IF c = 1 THEN "a.pdf" ELSE IF c = 2 THEN "b.pdf" ELSE "c.pdf"
EmptyName == ""

\* A chunk list is the ordered list of the splits of one document; chunk i of
\* document src is the pair <<src, i>>, so the list is given by src and len.
NoDocs == [src |-> Null, len |-> 0]
Splits(f, n) == [src |-> f, len |-> n]
Chunks(d) == [i \in 1..d.len |-> <<d.src, i>>]

\* A MemoryVectorStore: the document and the number of chunks embedded in it.
NoStore == [src |-> Null, size |-> 0]

\* An Error message is modelled by the set of the keywords it contains, which
\* is all that message.includes(...) can observe.
ProviderErrors == {{"quota"}, {}}
Includes(msg, kw) == kw \in msg

\* How an awaited provider call or race settles: fulfilled, or rejected with
\* an Error message
Ok == [kind |-> "ok", msg |-> {}]
Rejected(msg) == [kind |-> "error", msg |-> msg]
ProviderOutcomes == {Ok} \cup {Rejected(m) : m \in ProviderErrors}
\* the index-build timer rejects with 'Vector store creation timeout after ...'
BuildOutcomes == ProviderOutcomes \cup {Rejected({"timeout"})}

\* vectorStoreStatus values written by the code
StatusNotCreated == "not_created"
StatusReady == "created"
StatusDegraded == "fallback"

SmallTierMax == 50
LargeTierMin == 200
MaxChunks == 100
MaxRetries == 3
ChunkCounts == {2, 51, 201}

\* the session createSession stores: createdAt and lastAccessed are new Date()
UserSession ==
    [vectorstore |-> NoStore,
     documents |-> NoDocs,
     pdfName |-> Null,
     createdAt |-> now,
     lastAccessed |-> now,
     processingErrors |-> <<>>,
     vectorStoreStatus |-> StatusNotCreated]

\* a lookup that leaves lastAccessed as it is
Touch_Skip(s) == s

\* getSession on a session of the map: session.lastAccessed = new Date()
Touch(s) == [s EXCEPT !.lastAccessed = now]

----------------------------------------------------------------------------
(* PdfProcessingService: sessions *)

\* createSession: the session stored under a fresh id
NewId == issued + 1

\* pdf_uploaded taken to be "the session exists"
PdfUploaded_SessionExists(sid) == sid \in DOMAIN userSessions

\* getSessionStatus: pdf_uploaded and vectorstore_available of a session id
PdfUploaded(sid) ==
    /\ sid \in DOMAIN userSessions
    /\ userSessions[sid].pdfName # Null

VectorstoreAvailable(sid) ==
    /\ sid \in DOMAIN userSessions
    /\ userSessions[sid].vectorstore # NoStore

\* getDetailedSessionStatus: the status record of a session id
DetailedSessionStatus(sid) ==
    IF sid \notin DOMAIN userSessions
    THEN [session_exists |-> FALSE,
          vectorstore_available |-> FALSE,
          pdf_uploaded |-> FALSE,
          current_pdf |-> Null,
          vector_store_status |-> StatusNotCreated,
          documents_count |-> 0,
          processing_errors |-> <<>>]
    ELSE [session_exists |-> TRUE,
          vectorstore_available |-> userSessions[sid].vectorstore # NoStore,
          pdf_uploaded |-> userSessions[sid].pdfName # Null,
          current_pdf |-> userSessions[sid].pdfName,
          vector_store_status |-> userSessions[sid].vectorStoreStatus,
          documents_count |-> userSessions[sid].documents.len,
          processing_errors |-> userSessions[sid].processingErrors]

\* resetSession of PdfProcessingService: clears index, chunks and name only
ResetFields(s) ==
    [s EXCEPT !.vectorstore = NoStore,
              !.documents = NoDocs,
              !.pdfName = Null]

ResetSession(sid) ==
    /\ sid \in DOMAIN userSessions
    /\ userSessions' = [userSessions EXCEPT ![sid] = ResetFields(Touch(@))]
    /\ UNCHANGED <<now, storeVars, searchVars, buildVars, apiKey, issued, pdfLlm, up, qry, llmVars>>

\* no SessionService call yet
NoReturn == [op |-> "none", id |-> NoId, value |-> Null]

\* a lookup that touches every session of the map
Looked_All(sid) ==
    IF sid \in DOMAIN userSessions
    THEN [id \in DOMAIN userSessions |-> Touch(userSessions[id])]
    ELSE userSessions

\* the map after getSession(sid): a session of the map has been accessed
Looked(sid) ==
    IF sid \in DOMAIN userSessions
    THEN [userSessions EXCEPT ![sid] = Touch(@)]
    ELSE userSessions

\* createSession of PdfProcessingService (lines 46-66)
CreateSession ==
    /\ issued < MaxSessions
    /\ userSessions' = userSessions @@ (NewId :> UserSession)
    /\ issued' = issued + 1
    /\ ret' = [op |-> "PdfProcessingService.createSession", id |-> NewId, value |-> NewId]
    /\ UNCHANGED <<now, store, storeIssued, searchVars, buildVars, apiKey, pdfLlm, up, qry, llmVars>>

\* getSession of PdfProcessingService (lines 68-87): the session, touched,
\* or null
GetSession(sid) ==
    /\ userSessions' = Looked(sid)
    /\ ret' = [op |-> "PdfProcessingService.getSession", id |-> sid,
               value |-> IF sid \in DOMAIN userSessions
                         THEN Touch(userSessions[sid]) ELSE Null]
    /\ UNCHANGED <<now, store, storeIssued, searchVars, buildVars, apiKey, issued, pdfLlm, up, qry, llmVars>>

\* what a sweep hands back: a number, or nothing (a function without return)
Nothing == <<>>
Count(n) == <<n>>

SessionCleanupHours == 24

\* a session's hoursSinceLastAccess is above the threshold
Expired(s) == now - s.lastAccessed > SessionCleanupHours

\* cleanup of PdfProcessingService (lines 842-852): it returns nothing
Cleanup ==
    /\ userSessions' = [sid \in {id \in DOMAIN userSessions : ~Expired(userSessions[id])}
                            |-> userSessions[sid]]
    /\ ret' = [op |-> "PdfProcessingService.cleanup", id |-> NoId, value |-> Nothing]
    /\ UNCHANGED <<now, store, storeIssued, searchVars, buildVars, apiKey, issued, pdfLlm, up, qry, llmVars>>

\* time passes
TickHours == {12, 13}
MaxTime == 25
Tick(d) ==
    /\ now + d <= MaxTime
    /\ now' = now + d
    /\ UNCHANGED <<storeVars, searchVars, buildVars, apiKey, ingestVars, llmVars>>

----------------------------------------------------------------------------
(* SessionService *)

MaxStoreSessions == 2
BlankId == -3           \* a sessionId of whitespace only
InvalidIds == {NoId, BlankId, StaleId}

\* Partial<UserSession> values passed to updateSession
Updates ==
    {[pdfName |-> "a.pdf", vectorStoreStatus |-> StatusReady],
     [lastAccessed |-> 0]}

\* Object.assign(session, updates)
Assign(s, updates) ==
    [k \in DOMAIN s |-> IF k \in DOMAIN updates THEN updates[k] ELSE s[k]]

\* a lookup that inserts a session under an id the map does not hold
StoreLooked_Upsert(id) ==
    IF id \in DOMAIN store THEN [store EXCEPT ![id] = Touch(@)]
    ELSE store @@ (id :> UserSession)

\* the map after SessionService.getSession(id) (lines 39-60)
StoreLooked(id) ==
    IF id \in DOMAIN store THEN [store EXCEPT ![id] = Touch(@)] ELSE store

Returns(op, id, value) == [op |-> op, id |-> id, value |-> value]

\* createSession (lines 12-34)
SessionCreate ==
    /\ storeIssued < MaxStoreSessions
    /\ store' = store @@ ((storeIssued + 1) :> UserSession)
    /\ storeIssued' = storeIssued + 1
    /\ ret' = Returns("createSession", storeIssued + 1, storeIssued + 1)
    /\ UNCHANGED <<now, searchVars, buildVars, apiKey, ingestVars, llmVars>>

\* getSession (lines 39-60)
SessionGet(id) ==
    /\ store' = StoreLooked(id)
    /\ ret' = Returns("getSession", id,
                      IF id \in DOMAIN store THEN Touch(store[id]) ELSE Null)
    /\ UNCHANGED <<now, storeIssued, searchVars, buildVars, apiKey, ingestVars, llmVars>>

\* updateSession (lines 65-82)
SessionUpdate(id, updates) ==
    /\ store' = IF id \in DOMAIN store
                THEN [store EXCEPT ![id] = Touch(Assign(Touch(@), updates))]
                ELSE store
    /\ ret' = Returns("updateSession", id, id \in DOMAIN store)
    /\ UNCHANGED <<now, storeIssued, searchVars, buildVars, apiKey, ingestVars, llmVars>>

\* resetSession (lines 87-108)
SessionReset(id) ==
    /\ store' = IF id \in DOMAIN store
                THEN [store EXCEPT ![id] =
                        [@ EXCEPT !.vectorstore = NoStore,
                                  !.documents = NoDocs,
                                  !.pdfName = Null,
                                  !.vectorStoreStatus = StatusNotCreated,
                                  !.processingErrors = <<>>,
                                  !.lastAccessed = now]]
                ELSE store
    /\ ret' = Returns("resetSession", id, id \in DOMAIN store)
    /\ UNCHANGED <<now, storeIssued, searchVars, buildVars, apiKey, ingestVars, llmVars>>

\* deleteSession (lines 113-125)
SessionDelete(id) ==
    /\ store' = [sid \in DOMAIN store \ {id} |-> store[sid]]
    /\ ret' = Returns("deleteSession", id, id \in DOMAIN store)
    /\ UNCHANGED <<now, storeIssued, searchVars, buildVars, apiKey, ingestVars, llmVars>>

\* getSessionStatus (lines 130-147)
SessionStatus(id) ==
    /\ store' = StoreLooked(id)
    /\ ret' = Returns("getSessionStatus", id,
            IF id \in DOMAIN store
            THEN [session_exists |-> TRUE,
                  vectorstore_available |-> store[id].vectorstore # NoStore,
                  pdf_uploaded |-> store[id].pdfName # Null,
                  current_pdf |-> store[id].pdfName]
            ELSE [session_exists |-> FALSE,
                  vectorstore_available |-> FALSE,
                  pdf_uploaded |-> FALSE,
                  current_pdf |-> Null])
    /\ UNCHANGED <<now, storeIssued, searchVars, buildVars, apiKey, ingestVars, llmVars>>

\* getDetailedSessionStatus (lines 152-177)
SessionDetailedStatus(id) ==
    /\ store' = StoreLooked(id)
    /\ ret' = Returns("getDetailedSessionStatus", id,
            IF id \in DOMAIN store
            THEN [session_exists |-> TRUE,
                  vectorstore_available |-> store[id].vectorstore # NoStore,
                  pdf_uploaded |-> store[id].pdfName # Null,
                  current_pdf |-> store[id].pdfName,
                  vector_store_status |-> store[id].vectorStoreStatus,
                  documents_count |-> store[id].documents.len,
                  last_accessed |-> now,
                  processing_errors |-> store[id].processingErrors]
            ELSE [session_exists |-> FALSE,
                  vectorstore_available |-> FALSE,
                  pdf_uploaded |-> FALSE,
                  current_pdf |-> Null,
                  vector_store_status |-> StatusNotCreated,
                  documents_count |-> 0,
                  last_accessed |-> Null,
                  processing_errors |-> <<>>])
    /\ UNCHANGED <<now, storeIssued, searchVars, buildVars, apiKey, ingestVars, llmVars>>

\* cleanup (lines 182-201): the expired sessions are deleted and counted
SessionCleanup ==
    LET expired == {id \in DOMAIN store : Expired(store[id])} IN
    /\ store' = [sid \in DOMAIN store \ expired |-> store[sid]]
    /\ ret' = Returns("cleanup", NoId, Count(Cardinality(expired)))
    /\ UNCHANGED <<now, storeIssued, searchVars, buildVars, apiKey, ingestVars, llmVars>>

----------------------------------------------------------------------------
(* PdfProcessingService: ingestion (processPdfBuffer / _processInternal) *)

NoResult == [success |-> FALSE, sessionId |-> NoId, error |-> "pending"]
Failure(sid, err) == [success |-> FALSE, sessionId |-> sid, error |-> err]
Success(sid, warning) == [success |-> TRUE, sessionId |-> sid, error |-> warning]

IdleCall ==
    [pc |-> "idle", fileName |-> EmptyName, sid |-> NoId, cur |-> NoId,
     splits |-> NoDocs, retryCount |-> 0, waits |-> <<>>,
     inner |-> NoResult, result |-> NoResult]

\* the awaits of _processInternal
AwaitPcs == {"extract", "split", "embedTest", "buildLarge", "buildMedium",
             "buildSmall", "backoff"}
BuildPcs == {"buildLarge", "buildMedium", "buildSmall"}

BufLens == {0, 1000, 600000}
SmallFileThreshold == 500000
OverallTimeout(bufLen) == IF bufLen > SmallFileThreshold THEN 300000 ELSE 180000

\* the catch of lines 405-428: message and code of an index-build error
ClassifyVectorError(msg) ==
    IF Includes(msg, "quota") \/ Includes(msg, "rate limit")
    THEN [message |-> "OpenAI API quota exceeded or rate limit reached",
          code |-> "API_QUOTA_EXCEEDED"]
    ELSE IF Includes(msg, "authentication") \/ Includes(msg, "Unauthorized")
    THEN [message |-> "OpenAI API authentication failed",
          code |-> "API_AUTH_FAILED"]
    ELSE IF Includes(msg, "network") \/ Includes(msg, "timeout")
    THEN [message |-> "Network error or timeout while creating vector database",
          code |-> "NETWORK_ERROR"]
    ELSE IF Includes(msg, "API key")
    THEN [message |-> "OpenAI API key configuration error",
          code |-> "API_KEY_ERROR"]
    ELSE [message |-> "Vector database creation error",
          code |-> "VECTOR_DB_ERROR"]

\* a step size that rounds down
StepSize_Floor(n) == n \div MaxChunks

\* lines 291-303: the chunks handed to the index
StepSize(n) == (n + MaxChunks - 1) \div MaxChunks
SampledCount(n) == (n + StepSize(n) - 1) \div StepSize(n)
IndexedCount(n) == IF n > LargeTierMin THEN SampledCount(n) ELSE n

\* the loop of lines 297-299: the positions i, i + stepSize, ... below n
RECURSIVE SampleFrom(_, _, _)
SampleFrom(i, n, stepSize) ==
    IF i < n THEN <<i>> \o SampleFrom(i + stepSize, n, stepSize) ELSE <<>>

\* the positions of the chunks the index is built from: the sample of a
\* large document (line 308), all chunks otherwise (lines 341, 375)
IndexedPositions(n) ==
    IF n > LargeTierMin THEN SampleFrom(0, n, StepSize(n))
    ELSE [k \in 1..n |-> k - 1]

NoSample == [n |-> 0, positions |-> <<>>]

\* the pipeline has split a document into n chunks and chooses what to index
SampleChunks(n) ==
    /\ sampled = NoSample
    /\ sampled' = [n |-> n, positions |-> IndexedPositions(n)]
    /\ UNCHANGED <<build, applied, searchVars, coreVars>>

BuildPc(n) ==
    IF n > LargeTierMin THEN "buildLarge"
    ELSE IF n > SmallTierMax THEN "buildMedium"
    ELSE "buildSmall"

\* lines 316-323 and 350-356: large and medium documents store the index, the
\* status and the chunk list
StoreIndexAndDocs(s, splits) ==
    [s EXCEPT !.vectorstore = [src |-> splits.src,
                               size |-> IndexedCount(splits.len)],
              !.vectorStoreStatus = StatusReady,
              !.documents = splits]

\* lines 384-386: small documents store the index and the status
StoreIndexSmall(s, splits) ==
    [s EXCEPT !.vectorstore = [src |-> splits.src, size |-> splits.len],
              !.vectorStoreStatus = StatusReady]

\* lines 432-443: fallback mode after a failed index build
Degrade(s, splits, msg) ==
    [s EXCEPT !.documents = IF @.len = 0 THEN splits ELSE @,
              !.vectorstore = NoStore,
              !.vectorStoreStatus = StatusDegraded,
              !.processingErrors = Append(@, ClassifyVectorError(msg).message)]

\* a settling that leaves the document name of the session as it was
NameDocument_KeepName(s, f) == [s EXCEPT !.lastAccessed = now]
\* lines 446-448: the session gets the name of the document
NameDocument(s, f) == [s EXCEPT !.pdfName = f, !.lastAccessed = now]

Warning(msg) == ClassifyVectorError(msg).code

\* _processInternal settles with r: processPdfBuffer returns r unless the
\* overall timer has already returned the timeout failure
Settled(call, r) ==
    [call EXCEPT !.pc = "done",
                 !.inner = r,
                 !.result = IF @ = NoResult THEN r ELSE @]

\* the pipeline of call c ends in fallback mode (lines 405-461)
FinishDegraded(c, msg) ==
    LET call == up[c] IN
    /\ userSessions' = [userSessions EXCEPT ![call.cur] =
            NameDocument(Degrade(@, call.splits, msg), call.fileName)]
    /\ up' = [up EXCEPT ![c] = Settled(
                [@ EXCEPT !.retryCount = IF call.pc = "buildSmall" THEN @ + 1 ELSE @],
                Success(call.cur, Warning(msg)))]

\* validation that lets an empty buffer through
InvalidInput_NameOnly(buf, f) == f = EmptyName

\* _processInternal, lines 163-169: the input is rejected
InvalidInput(buf, f) == buf = 0 \/ f = EmptyName

\* processPdfBuffer is called: validation, session lookup or creation, and
\* the start of text extraction (lines 120-137, 161-207)
UploadStart(c, buf, f, sid) ==
    /\ up[c].pc = "idle"
    /\ \A d \in Calls : d < c => up[d].pc # "idle"
    /\ IF InvalidInput(buf, f)
       THEN /\ up' = [up EXCEPT ![c] = Settled(
                        [@ EXCEPT !.fileName = f, !.sid = sid],
                        Failure(IF sid = NoId THEN UnknownId ELSE sid,
                                "Internal processing failed"))]
            /\ UNCHANGED <<userSessions, issued>>
       ELSE LET isNew == sid \notin DOMAIN userSessions
                cur == IF isNew THEN NewId ELSE sid
            IN  /\ isNew => issued < MaxSessions
                /\ userSessions' = IF isNew
                                   THEN userSessions @@ (cur :> UserSession)
                                   ELSE [userSessions EXCEPT ![sid] = Touch(@)]
                /\ issued' = IF isNew THEN issued + 1 ELSE issued
                /\ up' = [up EXCEPT ![c] =
                            [@ EXCEPT !.pc = "extract", !.fileName = f,
                                      !.sid = sid, !.cur = cur]]
    /\ UNCHANGED <<now, storeVars, searchVars, buildVars, apiKey, pdfLlm, qry, llmVars>>

\* extractTextFromPDF, lines 100-112: a text is measured by its length. The
\* cleaned text of the buffer is returned if it is longer than 100 characters,
\* and the placeholder sentence otherwise
MinExtractedLength == 100
PlaceholderLength == 85
CleanedLengths == {0, 50, 150}
ExtractedLength(cleaned) ==
    IF cleaned > MinExtractedLength THEN cleaned ELSE PlaceholderLength

\* extractTextFromPDF has settled, with the buffer's cleaned text of the
\* given length or by throwing (lines 204-223)
ExtractSettle(c, ok, cleaned) ==
    /\ up[c].pc = "extract"
    /\ up' = [up EXCEPT ![c] =
                IF ~ok
                THEN Settled(@, Failure(up[c].cur, "Failed to extract text from PDF"))
                ELSE IF ExtractedLength(cleaned) = 0
                THEN Settled(@, Failure(up[c].cur, "PDF file appears to be empty"))
                ELSE [@ EXCEPT !.pc = "split"]]
    /\ UNCHANGED <<now, storeVars, searchVars, buildVars, apiKey, userSessions, issued, pdfLlm, qry, llmVars>>

\* extractTextFromPDF has settled (lines 204-248)
UploadAfterExtract(c, ok) == \E cleaned \in CleanedLengths : ExtractSettle(c, ok, cleaned)

\* splitDocuments has settled with n chunks; the API key is checked and the
\* embeddings test call is issued (lines 248-283)
UploadAfterSplit(c, n) ==
    /\ up[c].pc = "split"
    /\ IF n = 0
       THEN /\ up' = [up EXCEPT ![c] = Settled(@,
                        Failure(up[c].cur, "Failed to process document chunks"))]
            /\ UNCHANGED userSessions
       ELSE IF ~apiKey
       THEN /\ userSessions' = [userSessions EXCEPT ![up[c].cur] =
                    NameDocument(Degrade(@, Splits(up[c].fileName, n), {"API key"}),
                                 up[c].fileName)]
            /\ up' = [up EXCEPT ![c] = Settled(
                        [@ EXCEPT !.splits = Splits(up[c].fileName, n)],
                        Success(up[c].cur, Warning({"API key"})))]
       ELSE /\ up' = [up EXCEPT ![c] =
                        [@ EXCEPT !.pc = "embedTest",
                                  !.splits = Splits(up[c].fileName, n)]]
            /\ UNCHANGED userSessions
    /\ UNCHANGED <<now, storeVars, searchVars, buildVars, apiKey, issued, pdfLlm, qry, llmVars>>

\* the embeddings test call has settled; on success the index build of the
\* document's tier is started (lines 281-316, 330-350, 363-384)
UploadAfterEmbedTest(c, out) ==
    /\ up[c].pc = "embedTest"
    /\ IF out = Ok
       THEN /\ up' = [up EXCEPT ![c] = [@ EXCEPT !.pc = BuildPc(up[c].splits.len)]]
            /\ UNCHANGED userSessions
       ELSE FinishDegraded(c, out.msg)
    /\ UNCHANGED <<now, storeVars, searchVars, buildVars, apiKey, issued, pdfLlm, qry, llmVars>>

\* line 393: the wait, in ms, after the failure that made retryCount what it is
BackoffWait(retryCount) == (2 ^ retryCount) * 1000

\* the race of MemoryVectorStore.fromDocuments against the index-build timer
\* has settled: fulfilled, or rejected by the provider or by the timer
UploadBuildSettle(c, out) ==
    LET call == up[c] IN
    /\ call.pc \in BuildPcs
    /\ IF out = Ok
       THEN /\ userSessions' = [userSessions EXCEPT ![call.cur] =
                    NameDocument(
                        IF call.pc = "buildSmall"
                        THEN StoreIndexSmall(@, call.splits)
                        ELSE StoreIndexAndDocs(@, call.splits),
                        call.fileName)]
            /\ up' = [up EXCEPT ![c] = Settled(@, Success(call.cur, Null))]
       ELSE IF call.pc = "buildSmall" /\ call.retryCount + 1 < MaxRetries
       THEN /\ up' = [up EXCEPT ![c] =
                        [@ EXCEPT !.pc = "backoff",
                                  !.retryCount = @ + 1,
                                  !.waits = Append(@, BackoffWait(call.retryCount + 1))]]
            /\ UNCHANGED userSessions
       ELSE FinishDegraded(c, out.msg)
    /\ UNCHANGED <<now, storeVars, searchVars, buildVars, apiKey, issued, pdfLlm, qry, llmVars>>

\* the backoff wait of the small-document retry loop is over (lines 393-397)
UploadBackoffDone(c) ==
    /\ up[c].pc = "backoff"
    /\ up' = [up EXCEPT ![c] = [@ EXCEPT !.pc = "buildSmall"]]
    /\ UNCHANGED <<now, storeVars, searchVars, buildVars, apiKey, userSessions, issued, pdfLlm, qry, llmVars>>

\* the timer's rejection reported like any other failure
UploadTimeout_Generic(c) ==
    /\ up[c].pc \in AwaitPcs
    /\ up[c].result = NoResult
    /\ up' = [up EXCEPT ![c] =
                [@ EXCEPT !.result = Failure(up[c].sid, "PDF processing failed")]]
    /\ UNCHANGED <<now, storeVars, searchVars, buildVars, apiKey, userSessions, issued, pdfLlm, qry, llmVars>>

\* the overall timer wins the race of processPdfBuffer (lines 127-148): the
\* caller gets the timeout failure, _processInternal keeps running
UploadTimeout(c) ==
    /\ up[c].pc \in AwaitPcs
    /\ up[c].result = NoResult
    /\ up' = [up EXCEPT ![c] =
                [@ EXCEPT !.result = Failure(up[c].sid, "PDF processing timed out")]]
    /\ UNCHANGED <<now, storeVars, searchVars, buildVars, apiKey, userSessions, issued, pdfLlm, qry, llmVars>>

----------------------------------------------------------------------------
(* Upload route: validation of the uploaded file *)

SupportedExtensions == {".pdf", ".doc", ".docx", ".ppt", ".pptx", ".odt", ".odp"}
MaxFileSize == 10485760

\* the multipart 'file' field: absent, or a File with the extension of its
\* name and its size in bytes
NoFile == [present |-> FALSE, ext |-> "", size |-> 0]
File(ext, size) == [present |-> TRUE, ext |-> ext, size |-> size]
RouteFiles ==
    {NoFile, File(".exe", 1000), File(".pdf", 0), File(".pdf", MaxFileSize),
     File(".pdf", MaxFileSize + 1), File(".exe", MaxFileSize + 1)}

\* POST /api/upload-pdf, lines 14-70: the error of the 400 response, or "ok"
RouteValidation(file) ==
    IF ~file.present THEN "No file provided"
    ELSE IF file.ext \notin SupportedExtensions
    THEN "Only PDF, DOC, DOCX, PPT, PPTX, ODT, ODP files are allowed"
    ELSE IF file.size > MaxFileSize THEN "File size must be less than 10MB"
    ELSE IF file.size = 0 THEN "Could not read the uploaded file. Please try again."
    ELSE "ok"

\* POST /api/upload-pdf with a file that validation rejects: the handler
\* returns the 400 response with sessionId || '' (lines 14-70). An accepted
\* file goes on to the ingestion pipeline.
UploadRouteReject(c, file, sid) ==
    /\ up[c].pc = "idle"
    /\ \A d \in Calls : d < c => up[d].pc # "idle"
    /\ RouteValidation(file) # "ok"
    /\ up' = [up EXCEPT ![c] =
                Settled([@ EXCEPT !.sid = sid], Failure(sid, RouteValidation(file)))]
    /\ UNCHANGED <<now, storeVars, searchVars, buildVars, apiKey, userSessions, issued, pdfLlm, qry, llmVars>>

----------------------------------------------------------------------------
(* PdfProcessingService: query (query route and processQuery) *)

IdleQuery ==
    [pc |-> "idle", sid |-> NoId, midIngest |-> FALSE,
     context |-> Null, result |-> Null]

\* an ingestion for session sid has started and its pipeline has not settled
Ingesting(sid) == \E c \in Calls : up[c].pc \in AwaitPcs /\ up[c].cur = sid

TimeoutReply == "Xin loi, viec xu ly cau hoi dang mat nhieu thoi gian hon du kien"
OverloadReply == "Toi xin loi, hien tai he thong dang qua tai"
ConfigReply == "Xin loi, co van de voi cau hinh he thong"
GenericReply == "Toi xin loi, nhung toi dang gap su co ky thuat"

\* How the race of llm.invoke against the response timer settles: a reply
\* with text, a reply without text, the timer's 'LLM response timeout', or a
\* provider error
Reply == [kind |-> "reply", msg |-> {}]
EmptyReply == [kind |-> "empty", msg |-> {}]
TimerWins == [kind |-> "timer", msg |-> {"timeout"}]
\* the messages of the errors llm.invoke rejects with, some of them naming
\* more than one category
ModelErrors ==
    ProviderErrors \cup
        {{"timeout", "quota"}, {"rate limit"}, {"API key"},
         {"quota", "authentication"}}
ModelOutcomes == {Reply, EmptyReply, TimerWins} \cup {Rejected(m) : m \in ModelErrors}

\* processQuery, lines 747-761: the reply for a failed model call
QueryErrorReply(msg) ==
    IF Includes(msg, "timeout") THEN TimeoutReply
    ELSE IF Includes(msg, "quota") \/ Includes(msg, "rate limit") THEN OverloadReply
    ELSE IF Includes(msg, "authentication") \/ Includes(msg, "API key") THEN ConfigReply
    ELSE GenericReply

\* processQuery that asks the model without searching
SearchStart_SkipSearch(query, sid) ==
    IF ~PdfUploaded(sid)
    THEN [query EXCEPT !.pc = "done", !.result = "upload_first"]
    ELSE [query EXCEPT !.pc = "llm"]

\* processQuery from the session check on, and searchDocuments up to its first
\* await (lines 686-699, 546-559, 591-657)
SearchStart(query, sid) ==
    IF ~PdfUploaded(sid)
    THEN [query EXCEPT !.pc = "done", !.result = "upload_first"]
    ELSE IF userSessions[sid].vectorstore # NoStore
    THEN [query EXCEPT !.pc = "vsearch"]
    ELSE IF userSessions[sid].documents.len > 0
    THEN [query EXCEPT !.pc = "llm", !.context = "text search"]
    ELSE [query EXCEPT !.pc = "llm", !.context = "No document content available"]

\* the query route is called with a valid question (route lines 18-41,
\* processQuery lines 665-690)
QueryStart(q, sid) ==
    /\ qry[q].pc = "idle"
    /\ \A r \in Queries : r < q => qry[r].pc # "idle"
    /\ LET query == [qry[q] EXCEPT !.sid = sid, !.midIngest = Ingesting(sid)] IN
       IF sid = NoId \/ ~PdfUploaded(sid)
       THEN /\ qry' = [qry EXCEPT ![q] =
                        [query EXCEPT !.pc = "done", !.result = "requires_upload"]]
            /\ UNCHANGED pdfLlm
       ELSE IF pdfLlm = 0
       THEN IF apiKey
            THEN /\ pdfLlm' = 1
                 /\ qry' = [qry EXCEPT ![q] = [query EXCEPT !.pc = "init"]]
            ELSE /\ qry' = [qry EXCEPT ![q] =
                            [query EXCEPT !.pc = "done", !.result = "ai_unavailable"]]
                 /\ UNCHANGED pdfLlm
       ELSE /\ qry' = [qry EXCEPT ![q] = SearchStart(query, sid)]
            /\ UNCHANGED pdfLlm
    /\ userSessions' = Looked(sid)
    /\ UNCHANGED <<now, storeVars, searchVars, buildVars, apiKey, issued, up, llmVars>>

\* initializeLLM has settled (processQuery line 679)
QueryAfterInit(q) ==
    /\ qry[q].pc = "init"
    /\ qry' = [qry EXCEPT ![q] = SearchStart(@, qry[q].sid)]
    /\ userSessions' = Looked(qry[q].sid)
    /\ UNCHANGED <<now, storeVars, searchVars, buildVars, apiKey, issued, pdfLlm, up, llmVars>>

\* searchDocuments, line 562: what is returned when similaritySearch finds
\* nothing
NoVectorResults == "No relevant information found in the document for your query."

\* similaritySearch has settled (searchDocuments lines 559-589)
QueryVSearchSettle(q, out) ==
    LET query == qry[q]
        session == userSessions[query.sid]
    IN
    /\ query.pc = "vsearch"
    /\ qry' = [qry EXCEPT ![q] =
          IF out = "hits"
          THEN [@ EXCEPT !.pc = "llm", !.context = "vector search"]
          ELSE IF out = "none"
          THEN [@ EXCEPT !.pc = "llm", !.context = NoVectorResults]
          ELSE IF session.documents.len > 0
          THEN [@ EXCEPT !.pc = "llm", !.context = "text search"]
          ELSE [@ EXCEPT !.pc = "done", !.result = "search_error"]]
    /\ UNCHANGED <<now, storeVars, searchVars, buildVars, apiKey, userSessions, issued, pdfLlm, up, llmVars>>

\* the race of llm.invoke against the 30 s timer has settled (lines 730-771)
QueryLLMSettle(q, out) ==
    /\ qry[q].pc = "llm"
    /\ qry' = [qry EXCEPT ![q] =
          [@ EXCEPT !.pc = "done",
                    !.result = IF out = Reply THEN "answer"
                               ELSE QueryErrorReply(out.msg)]]
    /\ UNCHANGED <<now, storeVars, searchVars, buildVars, apiKey, userSessions, issued, pdfLlm, up, llmVars>>

----------------------------------------------------------------------------
(* LLMService *)

Sentinel == "No relevant information found in the uploaded document."
PaddedSentinel == " No relevant information found in the uploaded document. "
EmptyContext == ""
BlankContext == "   "
DocumentContext == "=== RELEVANT INFORMATION FROM DOCUMENT ==="
Contexts == {EmptyContext, Sentinel, PaddedSentinel, BlankContext, DocumentContext}

\* String.prototype.trim on the context blocks above
Trim(ctx) ==
    IF ctx = PaddedSentinel THEN Sentinel
    ELSE IF ctx = BlankContext THEN EmptyContext
    ELSE ctx

NoInformationAnswer == "Toi khong tim thay thong tin lien quan trong tai lieu PDF da tai len"
EmptyResponseError == "Empty response from LLM"

\* _handleLLMError without the timeout branch
HandleLLMError_NoTimeoutBranch(msg) ==
    IF Includes(msg, "quota") \/ Includes(msg, "rate limit") THEN OverloadReply
    ELSE IF Includes(msg, "authentication") \/ Includes(msg, "API key") THEN ConfigReply
    ELSE GenericReply

\* _handleLLMError, lines 217-229
HandleLLMError(msg) ==
    IF Includes(msg, "timeout") THEN TimeoutReply
    ELSE IF Includes(msg, "quota") \/ Includes(msg, "rate limit") THEN OverloadReply
    ELSE IF Includes(msg, "authentication") \/ Includes(msg, "API key") THEN ConfigReply
    ELSE GenericReply

\* generateResponse, line 46: the context needs no model call
NothingFound(ctx) == ctx = EmptyContext \/ Trim(ctx) = Sentinel

Pending == [kind |-> "pending", success |-> FALSE, text |-> Null]
Returned(ok, text) == [kind |-> "returned", success |-> ok, text |-> text]
Threw(text) == [kind |-> "threw", success |-> FALSE, text |-> text]

CreateFailed == -1

IdleCaller ==
    [pc |-> "idle", op |-> "none", context |-> EmptyContext, pending |-> 0,
     obtained |-> 0, invocations |-> 0, settled |-> Null, result |-> Pending]

\* generateResponse from line 42 on: the local answer, or the model call
Generate(caller) ==
    IF NothingFound(caller.context)
    THEN [caller EXCEPT !.pc = "done",
                        !.result = Returned(TRUE, NoInformationAnswer)]
    ELSE [caller EXCEPT !.pc = "invoke", !.obtained = llm,
                        !.invocations = caller.invocations + 1]

\* initializeLLM or generateResponse is called; with no client yet,
\* _createLLMInstance runs and its promise is awaited (lines 13-18, 37-40,
\* 121-150)
GenStart(g, op, ctx) ==
    /\ gen[g].pc = "idle"
    /\ \A h \in Callers : h < g => gen[h].pc # "idle"
    /\ LET caller == [gen[g] EXCEPT !.op = op, !.context = ctx] IN
       IF llm = 0
       THEN IF apiKey
            THEN /\ constructed' = constructed + 1
                 /\ gen' = [gen EXCEPT ![g] =
                        [caller EXCEPT !.pc = "create", !.pending = constructed + 1]]
            ELSE /\ gen' = [gen EXCEPT ![g] =
                        [caller EXCEPT !.pc = "create", !.pending = CreateFailed]]
                 /\ UNCHANGED constructed
       ELSE /\ gen' = [gen EXCEPT ![g] =
                    IF op = "initializeLLM"
                    THEN [caller EXCEPT !.pc = "done", !.obtained = llm,
                                        !.result = Returned(TRUE, "client")]
                    ELSE Generate(caller)]
            /\ UNCHANGED constructed
    /\ UNCHANGED <<now, storeVars, searchVars, buildVars, apiKey, ingestVars, llm>>

\* the await of line 15 resumes: the created instance is assigned to llm and
\* initializeLLM returns it, or the creation error is thrown on
GenInitResume(g) ==
    /\ gen[g].pc = "create"
    /\ IF gen[g].pending = CreateFailed
       THEN /\ gen' = [gen EXCEPT ![g] =
                    [@ EXCEPT !.pc = "done",
                              !.result = Threw("OpenAI API configuration error")]]
            /\ UNCHANGED llm
       ELSE /\ llm' = gen[g].pending
            /\ gen' = [gen EXCEPT ![g] =
                    IF gen[g].op = "initializeLLM"
                    THEN [@ EXCEPT !.pc = "done", !.obtained = gen[g].pending,
                                   !.result = Returned(TRUE, "client")]
                    ELSE [@ EXCEPT !.pc = "resume"]]
    /\ UNCHANGED <<now, storeVars, searchVars, buildVars, apiKey, ingestVars, constructed>>

\* the await of line 39 resumes and generateResponse goes on (lines 42-61)
GenContinue(g) ==
    /\ gen[g].pc = "resume"
    /\ gen' = [gen EXCEPT ![g] = Generate(gen[g])]
    /\ UNCHANGED <<now, storeVars, searchVars, buildVars, apiKey, ingestVars, llm, constructed>>

\* the race of llm.invoke against the timer has settled (lines 61-93)
GenSettle(g, out) ==
    /\ gen[g].pc = "invoke"
    /\ gen' = [gen EXCEPT ![g] =
          [@ EXCEPT !.pc = "done",
                    !.settled = out.kind,
                    !.result =
                        IF out = Reply THEN Returned(TRUE, "cleaned response")
                        ELSE IF out = EmptyReply THEN Returned(FALSE, EmptyResponseError)
                        ELSE Returned(FALSE, HandleLLMError(out.msg))]]
    /\ UNCHANGED <<now, storeVars, searchVars, buildVars, apiKey, ingestVars, llm, constructed>>

----------------------------------------------------------------------------
(* Retrieval: text *)

\* A string is the sequence of its characters. The alphabet has a letter in
\* both cases, a second letter, a letter with a diacritic and the blank.
Chars == {"a", "b", "B", "á", " "}
WordChars == {"a", "b", "B"}        \* the members of \w in the alphabet
SpaceChars == {" "}                 \* the members of \s in the alphabet

\* String.prototype.toLowerCase
LowerChar(ch) == IF ch = "B" THEN "b" ELSE ch
ToLowerCase(s) == [i \in DOMAIN s |-> LowerChar(s[i])]

\* String.prototype.trim
RECURSIVE TrimStart(_)
TrimStart(s) ==
    IF s # <<>> /\ Head(s) \in SpaceChars THEN TrimStart(Tail(s)) ELSE s
RECURSIVE TrimEnd(_)
TrimEnd(s) ==
    IF s # <<>> /\ s[Len(s)] \in SpaceChars
    THEN TrimEnd(SubSeq(s, 1, Len(s) - 1)) ELSE s
TrimText(s) == TrimEnd(TrimStart(s))

\* s.replace(/[^\w\s]/g, ' ')
StripSpecial(s) ==
    [i \in DOMAIN s |-> IF s[i] \in WordChars \cup SpaceChars THEN s[i] ELSE " "]

\* s.split(/\s+/): the pieces between the maximal runs of whitespace, with an
\* empty piece before a leading run and after a trailing one
SplitWhitespace(s) ==
    LET n == Len(s)
        starts == {i \in 1..n : s[i] \notin SpaceChars
                                /\ (i = 1 \/ s[i - 1] \in SpaceChars)}
        ends == {i \in 1..n : s[i] \notin SpaceChars
                              /\ (i = n \/ s[i + 1] \in SpaceChars)}
        Nth(set, k) == CHOOSE i \in set : Cardinality({j \in set : j <= i}) = k
        pieces == [k \in 1..Cardinality(starts) |->
                        SubSeq(s, Nth(starts, k), Nth(ends, k))]
        edge == <<<<>>>>
    IN  IF n = 0 THEN edge
        ELSE (IF s[1] \in SpaceChars THEN edge ELSE <<>>)
                \o pieces
                \o (IF s[n] \in SpaceChars THEN edge ELSE <<>>)

\* t occurs in s at position i
OccursAt(s, t, i) ==
    /\ i + Len(t) - 1 <= Len(s)
    /\ SubSeq(s, i, i + Len(t) - 1) = t

\* s.includes(t)
IncludesText(s, t) == \E i \in 1..(Len(s) + 1) : OccursAt(s, t, i)

\* (s.match(new RegExp(word, 'g')) || []).length for a word of \w characters:
\* the occurrences found from left to right without overlap
RECURSIVE MatchCountFrom(_, _, _)
MatchCountFrom(occurrences, width, i) ==
    LET later == {p \in occurrences : p >= i} IN
    IF later = {} THEN 0
    ELSE LET first == CHOOSE p \in later : \A r \in later : p <= r
         IN  1 + MatchCountFrom(occurrences, width, first + width)
MatchCount(s, word) ==
    MatchCountFrom({p \in 1..(Len(s) - Len(word) + 1) : OccursAt(s, word, p)},
                   Len(word), 1)

\* Array.prototype.filter
FilterSeq(seq, Keep(_)) ==
    LET kept[i \in 0..Len(seq)] ==
            IF i = 0 THEN <<>>
            ELSE IF Keep(seq[i]) THEN Append(kept[i - 1], seq[i])
            ELSE kept[i - 1]
    IN  kept[Len(seq)]

\* Array.prototype.slice(0, n)
Take(seq, n) == SubSeq(seq, 1, IF Len(seq) < n THEN Len(seq) ELSE n)

\* Array.prototype.sort by descending score; the sort is stable
SortByScore(seq, Score(_)) ==
    LET Insert(sorted, x) ==
            LET k == Cardinality({j \in DOMAIN sorted : Score(sorted[j]) >= Score(x)})
            IN  SubSeq(sorted, 1, k) \o <<x>> \o SubSeq(sorted, k + 1, Len(sorted))
        sorted[i \in 0..Len(seq)] ==
            IF i = 0 THEN <<>> ELSE Insert(sorted[i - 1], seq[i])
    IN  sorted[Len(seq)]

\* pageContent of chunk i of the uploaded document
PageContent(i) ==
    IF i = 1 THEN <<"a", "b", "á", " ", "b", "a">>
    ELSE IF i = 2 THEN <<"B", "a", "b", " ", "a", "b", "a">>
    ELSE IF i = 3 THEN <<"a", "b", "a">>
    ELSE <<"b", "a", "b", " ", "b", "a", "b">>

MinWordLength == 3
MaxQueryWords == 20
TopK == 3
PhraseBonus == 10

\* searchDocuments, lines 596-600: the words the query is searched by
QueryWords(query) ==
    LET IsWord(w) == Len(w) >= MinWordLength IN
    Take(FilterSeq(SplitWhitespace(StripSpecial(ToLowerCase(query))), IsWord),
         MaxQueryWords)

RECURSIVE SumMatches(_, _, _)
SumMatches(content, words, bonus) ==
    IF words = <<>> THEN 0
    ELSE MatchCount(content, Head(words)) + bonus
            + SumMatches(content, Tail(words), bonus)

\* searchDocuments, lines 614-626: the relevance score of chunk i
ChunkScore(i, query) ==
    LET content == ToLowerCase(PageContent(i)) IN
    SumMatches(content, QueryWords(query),
               IF IncludesText(content, ToLowerCase(query)) THEN PhraseBonus ELSE 0)

SearchMessage(text) == [kind |-> "message", text |-> text, chunks |-> <<>>]
SearchResults(how, chunks) == [kind |-> "results", text |-> how, chunks |-> chunks]

\* searchDocuments, lines 591-657: the text search over the n chunks of a
\* session without index
TextSearchDocuments(n, query) ==
    IF n = 0 THEN SearchMessage("No document content available for search")
    ELSE IF QueryWords(query) = <<>>
    THEN SearchMessage("Please provide a more specific search query")
    ELSE LET ScoreOf(i) == ChunkScore(i, query)
             Scores(i) == ScoreOf(i) > 0
             relevantChunks == FilterSeq([i \in 1..n |-> i], Scores)
         IN  IF relevantChunks = <<>>
             THEN SearchMessage("No relevant information found in the documents")
             ELSE SearchResults("text", Take(SortByScore(relevantChunks, ScoreOf), TopK))

MaxQueryLen == 4
MaxTextChunks == 4
RECURSIVE StringsOfLen(_)
StringsOfLen(n) ==
    IF n = 0 THEN {<<>>}
    ELSE {Append(s, ch) : s \in StringsOfLen(n - 1), ch \in Chars}
QueryStrings == UNION {StringsOfLen(n) : n \in 0..MaxQueryLen}

NoSearch == [op |-> "none", args |-> <<>>, result |-> SearchMessage("")]

\* searchDocuments(query, sessionId) on a session that holds a document of n
\* chunks and no index (lines 535-554, 591-657)
SearchDocuments(n, query) ==
    /\ srch = NoSearch
    /\ srch' = [op |-> "searchDocuments",
                args |-> <<n, query>>,
                result |-> IF TrimText(query) = <<>>
                           THEN SearchMessage("Please provide a valid question to search for.")
                           ELSE TextSearchDocuments(n, query)]
    /\ UNCHANGED <<found, serviceVars>>

----------------------------------------------------------------------------
(* The context block: SearchService.formatSearchResults and the cut of
   LLMService.generateResponse *)

\* no helper applied yet
NotApplied == [op |-> "none"]

\* the helper op applied to args gave value
Applied(op, args, value) ==
    /\ applied = NotApplied
    /\ applied' = [op |-> op, args |-> args, value |-> value]
    /\ UNCHANGED <<build, sampled, searchVars, coreVars>>

\* A text is a sequence of pieces; a piece is a literal or the block of one
\* result, with its length in characters. index is the place of the result,
\* 0 for a literal.
Piece(part, index, len) == [len |-> len, part |-> part, index |-> index]

SentinelLength == 55
HeaderLength == 44
FooterLength == 37
SeparatorLength == 2
SectionTitleLength == 27
SourceLength == 24
RelevanceLength == 18
MaxFormatted == 5
MaxSearchResultsLength == 8000

\* lines 418-424: '--- Relevant Section i ---', the trimmed content, the
\* source and, for a score that is not 0, the relevance
EntryLength(result) ==
    SectionTitleLength + result.len + SourceLength
        + (IF result.scored THEN RelevanceLength ELSE 0)

\* formatSearchResults that keeps every result
FormatSearchResults_All(results) ==
    IF results = <<>> THEN <<Piece("sentinel", 0, SentinelLength)>>
    ELSE LET n == Len(results) IN
         <<Piece("header", 0, HeaderLength)>>
            \o [k \in 1..(2 * n - 1) |->
                    IF k % 2 = 1
                    THEN Piece("entry", (k + 1) \div 2, EntryLength(results[(k + 1) \div 2]))
                    ELSE Piece("separator", 0, SeparatorLength)]
            \o <<Piece("footer", 0, FooterLength)>>

\* formatSearchResults(results), lines 409-433
FormatSearchResults(results) ==
    IF results = <<>> THEN <<Piece("sentinel", 0, SentinelLength)>>
    ELSE LET n == IF Len(results) < MaxFormatted THEN Len(results) ELSE MaxFormatted IN
         <<Piece("header", 0, HeaderLength)>>
            \o [k \in 1..(2 * n - 1) |->
                    IF k % 2 = 1
                    THEN Piece("entry", (k + 1) \div 2, EntryLength(results[(k + 1) \div 2]))
                    ELSE Piece("separator", 0, SeparatorLength)]
            \o <<Piece("footer", 0, FooterLength)>>

\* text.length
RECURSIVE TextLength(_)
TextLength(text) ==
    IF text = <<>> THEN 0 ELSE Head(text).len + TextLength(Tail(text))

\* text.substring(0, limit): the pieces that start before the limit, the
\* last of them cut at the limit
Substring(text, limit) ==
    LET Start(k) == TextLength(SubSeq(text, 1, k - 1))
        kept == Cardinality({k \in DOMAIN text : Start(k) < limit})
    IN  [k \in 1..kept |->
            IF Start(k) + text[k].len <= limit THEN text[k]
            ELSE Piece(text[k].part, text[k].index, limit - Start(k))]

\* formatSearchResults(results) handed to generateResponse, which cuts it
\* (llmService.ts line 43)
ContextFor(results) ==
    Applied("formatSearchResults", results,
            [formatted |-> FormatSearchResults(results),
             handed |-> Substring(FormatSearchResults(results), MaxSearchResultsLength)])

\* results by the length of their trimmed content; chunk sizes are an option
\* of processPDF
ContentLengths == {50, 1200, 3000}
FormatInputs(n) == [1..n -> [len : ContentLengths, scored : {TRUE}]]

----------------------------------------------------------------------------
(* LLMService.generateResponse: what becomes of the model's response *)

MaxResponseLength == 10000
NoticeLength == 34
DisclaimerLength == 154
PhraseLength == 7

\* the parts of a response: blanks, plain text, and the generic phrase
\* 'xin lỗi' in lower case ("phrase") or capitalised ("Phrase")
LowerPart(part) == IF part = "Phrase" THEN "phrase" ELSE part

\* response.trim(): the blanks at both ends go
TrimPieces(text) ==
    LET solid == {k \in DOMAIN text : text[k].part # "blank"} IN
    IF solid = {} THEN <<>>
    ELSE SubSeq(text, CHOOSE k \in solid : \A j \in solid : k <= j,
                      CHOOSE k \in solid : \A j \in solid : k >= j)

\* _cleanResponse that never cuts
CleanResponse_KeepAll(response) == TrimPieces(response)

\* _cleanResponse, lines 204-212
CleanResponse(response) ==
    LET cleanedResponse == TrimPieces(response) IN
    IF TextLength(cleanedResponse) > MaxResponseLength
    THEN Substring(cleanedResponse, MaxResponseLength)
            \o <<Piece("notice", 0, NoticeLength)>>
    ELSE cleanedResponse

\* _isGenericResponse, lines 188-199: the lower-cased response includes a
\* generic phrase; a phrase that was cut is not one
IsGenericResponse(response) ==
    \E k \in DOMAIN response :
        LowerPart(response[k].part) = "phrase" /\ response[k].len = PhraseLength

\* generateResponse, lines 63-85: the result for the response of the model
PostProcess(response) ==
    IF TextLength(TrimPieces(response)) = 0
    THEN [success |-> FALSE, error |-> EmptyResponseError, response |-> <<>>]
    ELSE LET cleanedResponse == CleanResponse(response) IN
         [success |-> TRUE, error |-> Null,
          response |-> IF IsGenericResponse(cleanedResponse)
                       THEN cleanedResponse \o <<Piece("disclaimer", 0, DisclaimerLength)>>
                       ELSE cleanedResponse]

\* llm.invoke has resolved with response
GenerateFrom(response) ==
    Applied("generateResponse", response, PostProcess(response))

\* a response: blanks, text, perhaps a generic phrase, text, blanks; parts of
\* length 0 are absent
Dense(text) ==
    LET full == {k \in DOMAIN text : text[k].len > 0} IN
    [i \in 1..Cardinality(full) |->
        text[CHOOSE k \in full : Cardinality({j \in full : j <= k}) = i]]
ResponseLengths ==
    {0, 100, MaxResponseLength - 3, MaxResponseLength, MaxResponseLength + 2000}
Responses ==
    {Dense(<<Piece("blank", 0, lead), Piece("text", 0, before),
             Piece(phrase, 0, IF phrase = "text" THEN 0 ELSE PhraseLength),
             Piece("text", 0, after), Piece("blank", 0, trail)>>) :
        lead \in {0, 3}, before \in ResponseLengths, phrase \in {"text", "phrase", "Phrase"},
        after \in {0, 50, MaxResponseLength}, trail \in {0, 2}}

----------------------------------------------------------------------------
(* Size tiers: PDFProcessingService.getOptimalProcessingConfig and
   VectorStoreService.getOptimalConfig *)

\* VECTOR_STORE_CONFIGS: the batch sizes of the standard, medium and large
\* configurations
StandardBatchSize == 50
MediumBatchSize == 25
LargeBatchSize == 50

SmallDocThreshold == 20
MediumDocThreshold == 50
SmallDocChunkSize == 800
MediumDocChunkSize == 1000
LargeDocChunkSize == 1200
ProcessingStandardBatch == 50
ProcessingMediumBatch == 25
ProcessingLargeBatch == 10
StandardCountBelow == 20
MediumCountBelow == 100

\* getOptimalProcessingConfig(textLength), pdfProcessor.ts lines 223-243
GetOptimalProcessingConfig(textLength) ==
    IF textLength < SmallDocThreshold
    THEN [tier |-> "small", chunkSize |-> SmallDocChunkSize,
          batchSize |-> ProcessingStandardBatch]
    ELSE IF textLength < MediumDocThreshold
    THEN [tier |-> "medium", chunkSize |-> MediumDocChunkSize,
          batchSize |-> ProcessingMediumBatch]
    ELSE [tier |-> "large", chunkSize |-> LargeDocChunkSize,
          batchSize |-> ProcessingLargeBatch]

\* getOptimalConfig(documentCount), sessionService.ts lines 532-540, with the
\* batch sizes of VECTOR_STORE_CONFIGS
GetOptimalConfig(documentCount) ==
    IF documentCount < StandardCountBelow
    THEN [tier |-> "standard", batchSize |-> StandardBatchSize]
    ELSE IF documentCount < MediumCountBelow
    THEN [tier |-> "medium", batchSize |-> MediumBatchSize]
    ELSE [tier |-> "large", batchSize |-> LargeBatchSize]

OptimalProcessingConfigCall(textLength) ==
    Applied("getOptimalProcessingConfig", textLength,
            GetOptimalProcessingConfig(textLength))

OptimalConfigCall(documentCount) ==
    Applied("getOptimalConfig", documentCount, GetOptimalConfig(documentCount))

----------------------------------------------------------------------------
(* VectorStoreService: createVectorStore and addDocumentsBatch *)

BatchSizes == {StandardBatchSize, MediumBatchSize}

\* the default of addDocumentsBatch's parameter retries
BatchRetries == 3

\* chunkArray(documents, batchSize).length
BatchCount(n, batchSize) == (n + batchSize - 1) \div batchSize

\* line 430: the delay, in ms, after the failure of attempt number attempt
ProgressiveDelay(attempt) == 1000 * attempt

\* an attempt after which addDocumentsBatch never gives up
LastAttempt_Never(attempt, retries) == FALSE

\* line 425: the failed attempt was the last one allowed
LastAttempt(attempt, retries) == attempt = retries

\* EmbeddingResult
BuildPending == [success |-> FALSE, error |-> {"pending"}, documentsProcessed |-> 0]
BuildCreated(n) == [success |-> TRUE, error |-> {}, documentsProcessed |-> n]
BuildFailed(msg) == [success |-> FALSE, error |-> msg, documentsProcessed |-> 0]

\* no createVectorStore call yet. attempts[b] counts the calls that embed
\* batch b; waits lists the delays, each with its batch and the number of the
\* attempt it precedes
IdleBuild ==
    [pc |-> "idle", documents |-> 0, batches |-> 0, batch |-> 0, attempt |-> 0,
     attempts |-> <<>>, waits |-> <<>>, result |-> BuildPending]

BuildIdle == build = IdleBuild

\* createVectorStore(documents, config) up to the await of fromDocuments on
\* the first batch (lines 328-352)
CreateVectorStore(n, batchSize) ==
    /\ BuildIdle
    /\ build' = IF n = 0
                THEN [build EXCEPT !.pc = "done",
                                   !.result = BuildFailed({"No documents provided"})]
                ELSE [build EXCEPT !.pc = "fromDocuments",
                                   !.documents = n,
                                   !.batches = BatchCount(n, batchSize),
                                   !.batch = 1,
                                   !.attempt = 1,
                                   !.attempts = <<1>>]
    /\ UNCHANGED <<sampled, applied, searchVars, coreVars>>

\* the loop of lines 357-360 moves on after batch number build.batch
NextBatch ==
    IF build.batch = build.batches
    THEN [build EXCEPT !.pc = "done", !.result = BuildCreated(build.documents)]
    ELSE [build EXCEPT !.pc = "addDocuments",
                       !.batch = @ + 1,
                       !.attempt = 1,
                       !.attempts = Append(@, 1)]

\* the catch of lines 362-369 and 384-408
BuildGivesUp(out) ==
    [build EXCEPT !.pc = "done",
                  !.result = BuildFailed(out.msg \cup {"Vector store creation failed"})]

\* MemoryVectorStore.fromDocuments(batches[0]) has settled (lines 353-354)
FromDocumentsSettle(out) ==
    /\ build.pc = "fromDocuments"
    /\ build' = IF out = Ok THEN NextBatch ELSE BuildGivesUp(out)
    /\ UNCHANGED <<sampled, applied, searchVars, coreVars>>

\* vectorStore.addDocuments has settled inside addDocumentsBatch (lines
\* 421-432)
AddDocumentsSettle(out) ==
    /\ build.pc = "addDocuments"
    /\ build' = IF out = Ok THEN NextBatch
                ELSE IF LastAttempt(build.attempt, BatchRetries)
                THEN BuildGivesUp(out)
                ELSE [build EXCEPT !.pc = "delay",
                                   !.waits = Append(@, [batch |-> build.batch,
                                                         retry |-> build.attempt + 1,
                                                         ms |-> ProgressiveDelay(build.attempt)])]
    /\ UNCHANGED <<sampled, applied, searchVars, coreVars>>

\* the delay is over: the next attempt of the same batch (lines 421-423)
DelayDone ==
    /\ build.pc = "delay"
    /\ build' = [build EXCEPT !.pc = "addDocuments",
                              !.attempt = @ + 1,
                              !.attempts[build.batch] = @ + 1]
    /\ UNCHANGED <<sampled, applied, searchVars, coreVars>>

DocumentTotals == {0, 2, 51, 101}

----------------------------------------------------------------------------
(* Retrieval: SearchService *)

\* Scores are kept as integers: a vector or text score s stands for s/1000,
\* a hybrid score for s/10000.
MaxSearchResults == 3
MinContentLength == 50
MinRelevance == 100                \* 0.1
KeyPrefixLength == 100
ShortQueryLength == 20
LongQueryLength == 100
MinTermLength == 3

Rep(ch, n) == [i \in 1..n |-> ch]

\* the contents of the documents: three that differ in case, in runs of
\* blanks and in surrounding blanks only, two that differ after the first
\* KeyPrefixLength characters only, and a short one
Passages ==
    << <<"B", "a", "b", " ">> \o Rep("a", MinContentLength),
       <<"b", "a", "b", " ", " ">> \o Rep("a", MinContentLength),
       <<" ", "b", "a", "b", " ">> \o Rep("a", MinContentLength),
       <<"b", "a", "b", " ">> \o Rep("a", KeyPrefixLength - 4) \o <<"b">>,
       <<"b", "a", "b", " ">> \o Rep("a", KeyPrefixLength - 4) \o <<"a">>,
       <<"a", "b", "a">> >>

\* documents: Document[] holding the first n contents
Documents(n) == SubSeq(Passages, 1, n)

\* the MemoryVectorStore argument: null, or a store of k memoryVectors
NullStore == [present |-> FALSE, memoryVectors |-> 0]
VectorStore(k) == [present |-> TRUE, memoryVectors |-> k]

\* VectorStoreService.validateVectorStore(vectorStore).isValid
ValidVectorStore(vectorStore) ==
    vectorStore.present /\ vectorStore.memoryVectors # 0

\* what VectorStoreService.similaritySearchWithScore resolves to: a failure
\* of the embedding provider, or [document, score] pairs of the store
MaxVectorHits == 2
MaxSplits == 420
MaxResultsIn == 6
MaxSize == 110
Hit(content, score) == [content |-> content, score |-> score]
\* every passage at similarity 0.9, and the first one at 0.05 as well
Hits == {Hit(Passages[i], 900) : i \in DOMAIN Passages} \cup {Hit(Passages[1], 50)}
RECURSIVE HitLists(_)
HitLists(n) ==
    IF n = 0 THEN {<<>>}
    ELSE {Append(hits, hit) : hits \in HitLists(n - 1), hit \in Hits}
SearchFailed == [success |-> FALSE, results |-> <<>>]
StoreResponses(vectorStore) ==
    {SearchFailed} \cup
    {[success |-> TRUE, results |-> hits] :
        hits \in UNION {HitLists(n) : n \in 0..vectorStore.memoryVectors}}

\* CombinedSearchResult
Found(searchType, results) ==
    [success |-> TRUE, results |-> results, searchType |-> searchType, error |-> ""]
NotFound(searchType, error) ==
    [success |-> FALSE, results |-> <<>>, searchType |-> searchType, error |-> error]

\* vectorSearch(vectorStore, query, {maxResults, minScore})
VectorSearchOptions(vectorStore, query, response, maxResults, minScore) ==
    IF TrimText(query) = <<>> THEN NotFound("vector", "Query cannot be empty")
    ELSE IF ~ValidVectorStore(vectorStore)
    THEN NotFound("vector", "Invalid vector store")
    ELSE IF ~response.success THEN NotFound("vector", "similarity search failed")
    ELSE LET Relevant(hit) ==
                 /\ ~(minScore > 0 /\ hit.score < minScore)
                 /\ ~(hit.score # 0 /\ hit.score < MinRelevance)
                 /\ Len(TrimText(hit.content)) >= MinContentLength
         IN  Found("vector", Take(FilterSeq(response.results, Relevant), maxResults))

\* vectorSearch(vectorStore, query, {maxResults}): minScore = 0 by default
DefaultMinScore == 0
VectorSearch(vectorStore, query, response, maxResults) ==
    VectorSearchOptions(vectorStore, query, response, maxResults, DefaultMinScore)

RECURSIVE TermScore(_, _)
TermScore(content, terms) ==
    IF terms = <<>> THEN 0
    ELSE MatchCount(content, Head(terms)) * Len(Head(terms)) * 100
            + TermScore(content, Tail(terms))

\* textSearch, lines 206-207 and 209-227: the terms and the score of a content
QueryTerms(query) ==
    LET IsTerm(term) == Len(term) >= MinTermLength IN
    FilterSeq(SplitWhitespace(ToLowerCase(query)), IsTerm)
TextScore(pageContent, query) ==
    LET content == ToLowerCase(pageContent)
        queryTerms == QueryTerms(query)
    IN  TermScore(content, queryTerms)
            + (IF IncludesText(content, ToLowerCase(query))
               THEN Len(queryTerms) * 2000 ELSE 0)

TextSearch_KeepAll(documents, query, maxResults) ==
    IF TrimText(query) = <<>> THEN NotFound("text", "Query cannot be empty")
    ELSE IF documents = <<>> THEN NotFound("text", "No documents available for search")
    ELSE LET scored == [i \in DOMAIN documents |->
                            Hit(documents[i], TextScore(documents[i], query))]
             ScoreOf(hit) == hit.score
         IN  Found("text", Take(SortByScore(scored, ScoreOf), maxResults))

\* textSearch(documents, query, {maxResults})
TextSearch(documents, query, maxResults) ==
    IF TrimText(query) = <<>> THEN NotFound("text", "Query cannot be empty")
    ELSE IF documents = <<>> THEN NotFound("text", "No documents available for search")
    ELSE LET scored == [i \in DOMAIN documents |->
                            Hit(documents[i], TextScore(documents[i], query))]
             Positive(hit) == hit.score > 0
             ScoreOf(hit) == hit.score
         IN  Found("text", Take(SortByScore(FilterSeq(scored, Positive), ScoreOf),
                                maxResults))

\* s.replace(/\s+/g, ' ')
CollapseWhitespace(s) ==
    LET dropped == {i \in 2..Len(s) : s[i] \in SpaceChars /\ s[i - 1] \in SpaceChars}
        Before(i) == Cardinality({d \in dropped : d <= i})
        gaps == Cardinality(dropped)
    IN  [k \in 1..(Len(s) - gaps) |->
            LET i == CHOOSE i \in k..(k + gaps) :
                        i \notin dropped /\ i - Before(i) = k
            IN  IF s[i] \in SpaceChars THEN " " ELSE s[i]]

\* generateResultKey(content)
GenerateResultKey_Raw(content) == Take(content, KeyPrefixLength)
GenerateResultKey(content) ==
    TrimText(CollapseWhitespace(ToLowerCase(Take(content, KeyPrefixLength))))

\* Math.ceil(maxResults * tenths / 10)
CeilTenths(maxResults, tenths) == (maxResults * tenths + 9) \div 10

\* Map.prototype.set: a new key goes last, a known key keeps its place
MapSet(map, key, value) ==
    IF \E i \in DOMAIN map : map[i].key = key
    THEN [i \in DOMAIN map |->
            IF map[i].key = key THEN [key |-> key, value |-> value] ELSE map[i]]
    ELSE Append(map, [key |-> key, value |-> value])

\* hybridSearch, lines 287-296: the vector results enter the map
AddVectorResults(results) ==
    LET map[i \in 0..Len(results)] ==
            IF i = 0 THEN <<>>
            ELSE MapSet(map[i - 1], GenerateResultKey(results[i].content),
                        Hit(results[i].content, results[i].score * 12))
    IN  map[Len(results)]

\* hybridSearch, lines 299-314: a text result joins the entry of its key
AddTextResults(combined, results) ==
    LET map[i \in 0..Len(results)] ==
            IF i = 0 THEN combined
            ELSE LET key == GenerateResultKey(results[i].content)
                     before == map[i - 1]
                 IN  IF \E j \in DOMAIN before : before[j].key = key
                     THEN [j \in DOMAIN before |->
                            IF before[j].key = key
                            THEN [key |-> key,
                                  value |-> Hit(before[j].value.content,
                                                before[j].value.score
                                                    + results[i].score * 8)]
                            ELSE before[j]]
                     ELSE Append(before, [key |-> key,
                                          value |-> Hit(results[i].content,
                                                        results[i].score * 8)])
    IN  map[Len(results)]

\* hybridSearch(vectorStore, documents, query)
HybridSearch(vectorStore, documents, query, response) ==
    LET maxResults == MaxSearchResults
        vectorResult == VectorSearch(vectorStore, query, response,
                                     CeilTenths(maxResults, 7))
        textResult == TextSearch(documents, query, CeilTenths(maxResults, 5))
        fromVector == IF vectorResult.success
                      THEN AddVectorResults(vectorResult.results) ELSE <<>>
        combinedResults == IF textResult.success
                           THEN AddTextResults(fromVector, textResult.results)
                           ELSE fromVector
        values == [i \in DOMAIN combinedResults |-> combinedResults[i].value]
        ScoreOf(hit) == hit.score
    IN  Found("hybrid", Take(SortByScore(values, ScoreOf), maxResults))

IsShortQuery(queryLength) == queryLength < ShortQueryLength
IsLongQuery(queryLength) == queryLength > LongQueryLength

\* smartSearch(vectorStore, documents, query)
SmartSearch(vectorStore, documents, query, response) ==
    LET hasVectorStore == ValidVectorStore(vectorStore)
        hasDocuments == Len(documents) > 0
        queryLength == Len(TrimText(query))
    IN  IF ~hasVectorStore /\ ~hasDocuments
        THEN NotFound("none", "No search resources available")
        ELSE IF hasVectorStore /\ hasDocuments /\ ~IsShortQuery(queryLength)
        THEN HybridSearch(vectorStore, documents, query, response)
        ELSE IF hasVectorStore /\ ~IsLongQuery(queryLength)
        THEN VectorSearch(vectorStore, query, response, MaxSearchResults)
        ELSE IF hasDocuments
        THEN TextSearch(documents, query, MaxSearchResults)
        ELSE NotFound("none", "No suitable search method available")

\* the queries: a phrase of the documents padded to a length on either side
\* of the two thresholds, with and without surrounding blanks, and a blank one
QueryOf(pad, length) ==
    Rep(" ", pad) \o <<"b", "a", "b", " ">> \o Rep("a", length - 4) \o Rep(" ", pad)
QueryLengths ==
    {4, ShortQueryLength - 1, ShortQueryLength, LongQueryLength, LongQueryLength + 1}
SearchQueries ==
    {QueryOf(pad, length) : pad \in {0, 1}, length \in QueryLengths} \cup {<<" ">>}
HybridQueries == {<<" ">>, QueryOf(0, 4), QueryOf(1, ShortQueryLength)}
VectorStores == {NullStore, VectorStore(0), VectorStore(MaxVectorHits)}
SmartStores == {NullStore, VectorStore(0), VectorStore(1)}
DocumentCounts == {0, 3, Len(Passages)}

NoFound ==
    [op |-> "none", vectorStore |-> NullStore, documents |-> <<>>, query |-> <<>>,
     response |-> SearchFailed, result |-> NotFound("none", "")]

SearchIdle == srch = NoSearch /\ found = NoFound

Searched(op, vectorStore, documents, query, response, result) ==
    /\ SearchIdle
    /\ found' = [op |-> op, vectorStore |-> vectorStore, documents |-> documents,
                 query |-> query, response |-> response, result |-> result]
    /\ UNCHANGED <<srch, serviceVars>>

HybridSearchCall(vectorStore, n, query, response) ==
    Searched("hybridSearch", vectorStore, Documents(n), query, response,
             HybridSearch(vectorStore, Documents(n), query, response))

SmartSearchCall(vectorStore, n, query, response) ==
    Searched("smartSearch", vectorStore, Documents(n), query, response,
             SmartSearch(vectorStore, Documents(n), query, response))

\* the direct calls of vectorSearch and textSearch, with their options
SearchedWith(op, vectorStore, documents, query, response, options, result) ==
    /\ SearchIdle
    /\ found' = [op |-> op, vectorStore |-> vectorStore, documents |-> documents,
                 query |-> query, response |-> response, options |-> options,
                 result |-> result]
    /\ UNCHANGED <<srch, serviceVars>>

Options(maxResults, minScore) == [maxResults |-> maxResults, minScore |-> minScore]

TextSearchCall(n, query, maxResults) ==
    SearchedWith("textSearch", NullStore, Documents(n), query, SearchFailed,
                 Options(maxResults, DefaultMinScore),
                 TextSearch(Documents(n), query, maxResults))

VectorSearchCall(vectorStore, query, response, maxResults, minScore) ==
    SearchedWith("vectorSearch", vectorStore, <<>>, query, response,
                 Options(maxResults, minScore),
                 VectorSearchOptions(vectorStore, query, response, maxResults, minScore))

\* the queries of the direct calls: a word of the documents, a word of two
\* letters, a word no document holds, a phrase, and a blank query
DirectQueries ==
    { <<"b", "a", "b">>, <<"a", "b">>, <<"á", "á", "á">>, <<"a", "b", "a">>,
      <<"B", "a", "b", " ", "a", "a", "a">>, <<" ">> }
\* what the store answers to the direct calls: similarities 0.9, 0.3, 0.05
\* and 0 for long passages, and 0.9 for the short one
ScoredHits ==
    { Hit(Passages[1], 900), Hit(Passages[2], 300), Hit(Passages[3], 50),
      Hit(Passages[4], 0), Hit(Passages[6], 900) }
RECURSIVE ScoredHitLists(_)
ScoredHitLists(n) ==
    IF n = 0 THEN {<<>>}
    ELSE {Append(hits, hit) : hits \in ScoredHitLists(n - 1), hit \in ScoredHits}
DirectResponses(vectorStore) ==
    {SearchFailed} \cup
    {[success |-> TRUE, results |-> hits] :
        hits \in UNION {ScoredHitLists(n) : n \in 0..vectorStore.memoryVectors}}
ResultLimits == {1, MaxSearchResults}
MinScores == {DefaultMinScore, 500}

----------------------------------------------------------------------------
(* Specifications *)

Init ==
    /\ apiKey \in BOOLEAN
    /\ userSessions = <<>>
    /\ issued = 0
    /\ pdfLlm = 0
    /\ up = [c \in Calls |-> IdleCall]
    /\ qry = [q \in Queries |-> IdleQuery]
    /\ llm = 0
    /\ constructed = 0
    /\ gen = [g \in Callers |-> IdleCaller]
    /\ srch = NoSearch
    /\ found = NoFound
    /\ build = IdleBuild
    /\ sampled = NoSample
    /\ applied = NotApplied
    /\ now = 0
    /\ store = <<>>
    /\ storeIssued = 0
    /\ ret = NoReturn

\* the steps of the processPdfBuffer call c
UploadOf(c) ==
    \/ \E buf \in BufLens, f \in {FileOf(c), EmptyName},
          sid \in DOMAIN userSessions \cup {NoId, StaleId} :
            UploadStart(c, buf, f, sid)
    \/ \E ok \in BOOLEAN : UploadAfterExtract(c, ok)
    \/ \E n \in ChunkCounts \cup {0} : UploadAfterSplit(c, n)
    \/ \E out \in ProviderOutcomes : UploadAfterEmbedTest(c, out)
    \/ \E out \in BuildOutcomes : UploadBuildSettle(c, out)
    \/ UploadBackoffDone(c)
    \/ UploadTimeout(c)

UploadNext == \E c \in Calls : UploadOf(c)

QueryNext ==
    \/ \E q \in Queries, sid \in DOMAIN userSessions \cup {NoId, StaleId} :
            QueryStart(q, sid)
    \/ \E q \in Queries : QueryAfterInit(q)
    \/ \E q \in Queries, out \in {"hits", "none", "fail"} : QueryVSearchSettle(q, out)
    \/ \E q \in Queries, out \in ModelOutcomes : QueryLLMSettle(q, out)

IngestNext ==
    \/ UploadNext
    \/ \E sid \in DOMAIN userSessions : ResetSession(sid)

ServeNext ==
    \/ IngestNext
    \/ QueryNext

LLMNext ==
    \/ \E g \in Callers, op \in {"initializeLLM", "generateResponse"}, ctx \in Contexts :
            GenStart(g, op, ctx)
    \/ \E g \in Callers : GenInitResume(g)
    \/ \E g \in Callers : GenContinue(g)
    \/ \E g \in Callers, out \in ModelOutcomes : GenSettle(g, out)

RouteNext ==
    \E c \in Calls, file \in RouteFiles,
       sid \in DOMAIN userSessions \cup {NoId, StaleId} :
            UploadRouteReject(c, file, sid)

UploadRouteNext ==
    \/ RouteNext
    \/ UploadNext

\* uploads and resets
SpecIngest == Init /\ [][IngestNext]_vars
\* uploads, resets and queries
SpecServe == Init /\ [][ServeNext]_vars
\* the callers of LLMService
SpecLLM == Init /\ [][LLMNext]_vars

\* uploads through the upload route
SpecUpload == Init /\ [][UploadRouteNext]_vars

SearchNext ==
    \/ \E n \in 1..MaxTextChunks, query \in QueryStrings : SearchDocuments(n, query)

\* the retrieval functions applied to their inputs
SpecSearch == Init /\ [][SearchNext]_vars

OrchestratorNext ==
    \/ /\ SearchIdle
       /\ \E vectorStore \in VectorStores, n \in DocumentCounts, query \in HybridQueries :
             \E response \in StoreResponses(vectorStore) :
                HybridSearchCall(vectorStore, n, query, response)
    \/ /\ SearchIdle
       /\ \E vectorStore \in SmartStores, n \in DocumentCounts, query \in SearchQueries :
             \E response \in StoreResponses(vectorStore) :
                SmartSearchCall(vectorStore, n, query, response)

\* the functions of SearchService applied to their inputs
SpecOrchestrator == Init /\ [][OrchestratorNext]_vars

DirectNext ==
    \/ /\ SearchIdle
       /\ \E n \in 0..Len(Passages), query \in DirectQueries, maxResults \in ResultLimits :
             TextSearchCall(n, query, maxResults)
    \/ /\ SearchIdle
       /\ \E vectorStore \in VectorStores, query \in {<<" ">>, <<"b", "a", "b">>} :
             \E response \in DirectResponses(vectorStore),
                maxResults \in ResultLimits, minScore \in MinScores :
                VectorSearchCall(vectorStore, query, response, maxResults, minScore)
    \/ /\ SearchIdle
       /\ \E n \in 0..MaxTextChunks, query \in QueryStrings : SearchDocuments(n, query)

\* the lexical and the vector search applied to their inputs
SpecDirect == Init /\ [][DirectNext]_vars

StoreIdInputs == (1..MaxStoreSessions) \cup InvalidIds

\* the operations of SessionService
SessionServiceNext ==
    \/ SessionCreate
    \/ \E id \in StoreIdInputs : SessionGet(id)
    \/ \E id \in StoreIdInputs, updates \in Updates : SessionUpdate(id, updates)
    \/ \E id \in StoreIdInputs : SessionReset(id)
    \/ \E id \in StoreIdInputs : SessionDelete(id)
    \/ \E id \in StoreIdInputs : SessionStatus(id)
    \/ \E id \in StoreIdInputs : SessionDetailedStatus(id)
    \/ SessionCleanup

\* the session operations of PdfProcessingService
PdfSessionNext ==
    \/ CreateSession
    \/ \E sid \in SessionIds \cup InvalidIds : GetSession(sid)
    \/ \E sid \in DOMAIN userSessions : ResetSession(sid)

\* The two services keep separate maps and share no state, so a run
\* exercises the one or the other.
PdfIdle ==
    /\ issued = 0
    /\ \A c \in Calls : up[c].pc = "idle"
    /\ \A q \in Queries : qry[q].pc = "idle"
    /\ ret.op \notin {"PdfProcessingService.createSession",
                      "PdfProcessingService.getSession",
                      "PdfProcessingService.cleanup"}
StoreIdle ==
    /\ storeIssued = 0
    /\ ret.op \in {"none", "PdfProcessingService.createSession",
                   "PdfProcessingService.getSession",
                   "PdfProcessingService.cleanup"}

StoreNext ==
    \/ PdfIdle /\ SessionServiceNext
    \/ StoreIdle /\ PdfSessionNext
    \/ StoreIdle /\ Cleanup
    \/ \E d \in TickHours : Tick(d)

\* uploads, resets and the start of queries on the sessions of
\* PdfProcessingService, the operations of SessionService, and time passing
TimedNext ==
    \/ PdfIdle /\ SessionServiceNext
    \/ StoreIdle /\ \E sid \in DOMAIN userSessions : ResetSession(sid)
    \/ StoreIdle /\ UploadOf(1)
    \/ /\ StoreIdle
       /\ \E q \in Queries, sid \in DOMAIN userSessions \cup {NoId, StaleId} :
                QueryStart(q, sid)
    \/ StoreIdle /\ \E q \in Queries : QueryAfterInit(q)
    \/ \E d \in TickHours : Tick(d)

\* no upload is between two of its steps
UploadSettled == \A c \in Calls : up[c].pc \in {"idle", "done"}

IsolationNext ==
    \/ PdfIdle /\ SessionServiceNext
    \/ StoreIdle /\ PdfSessionNext
    \/ StoreIdle /\ UploadOf(1)
    \/ StoreIdle /\ UploadSettled /\ QueryNext
    \/ now = 0 /\ UploadSettled /\ Tick(SessionCleanupHours \div 2)

UploadIdle == \A c \in Calls : up[c].pc = "idle"

RetryNext ==
    \/ BuildIdle /\ UploadOf(1)
    \/ UploadIdle /\ \E n \in DocumentTotals, batchSize \in BatchSizes :
                        CreateVectorStore(n, batchSize)
    \/ \E out \in ProviderOutcomes : FromDocumentsSettle(out)
    \/ \E out \in ProviderOutcomes : AddDocumentsSettle(out)
    \/ DelayDone

SamplingNext == \E n \in 1..MaxSplits : SampleChunks(n)

PostProcessNext == \E response \in Responses : GenerateFrom(response)

TierNext ==
    \/ \E textLength \in 0..MaxSize : OptimalProcessingConfigCall(textLength)
    \/ \E documentCount \in 0..MaxSize : OptimalConfigCall(documentCount)

FormatNext == \E n \in 0..MaxResultsIn : \E results \in FormatInputs(n) : ContextFor(results)

\* the operations of the two session stores, and time passing
SpecStore == Init /\ [][StoreNext]_vars
\* the requests on the sessions of either store, and time passing
SpecIsolation == Init /\ [][IsolationNext]_vars
\* one index build, by the upload pipeline or by VectorStoreService
SpecRetry == Init /\ [][RetryNext]_vars
\* the choice of the chunks to index, for every chunk count up to MaxSplits
SpecSampling == Init /\ [][SamplingNext]_vars
\* the context block of every list of up to MaxResultsIn results
SpecFormat == Init /\ [][FormatNext]_vars
\* the result of generateResponse for every response of Responses
SpecPostProcess == Init /\ [][PostProcessNext]_vars
\* the configuration chosen for every size up to MaxSize
SpecTiers == Init /\ [][TierNext]_vars
\* the operations that read or write a session, and time passing
SpecTimed == Init /\ [][TimedNext]_vars

Next ==
    ServeNext \/ LLMNext \/ RouteNext \/ SearchNext \/ OrchestratorNext \/ DirectNext
        \/ StoreNext \/ TimedNext \/ IsolationNext \/ RetryNext \/ SamplingNext
        \/ FormatNext \/ PostProcessNext \/ TierNext

\* the whole program
Spec == Init /\ [][Next]_vars

----------------------------------------------------------------------------
(* Claims *)

\* the step in which the pipeline of call c settles
Settles(c) == up[c].pc \in AwaitPcs /\ up'[c].pc = "done"

\* the step in which the index construction of call c fails for good: the
\* API key is missing, the embeddings test call is rejected, or the build is
\* rejected by the provider or the timer and no retry is left
IndexBuildFails(c) ==
    /\ Settles(c)
    /\ \/ \E n \in ChunkCounts : ~apiKey /\ UploadAfterSplit(c, n)
       \/ \E out \in ProviderOutcomes \ {Ok} : UploadAfterEmbedTest(c, out)
       \/ \E out \in BuildOutcomes \ {Ok} : UploadBuildSettle(c, out)

\* C1: when index construction fails after extraction and chunking succeeded,
\* the pipeline reports success with a warning, appends the error to the
\* session's error log, leaves the session without index and degraded, and
\* the session holds the full chunk list of the uploaded document.
C1_DegradeNotFail ==
    [][\A c \in Calls : IndexBuildFails(c) =>
          LET call == up'[c]
              before == userSessions[call.cur]
              after == userSessions'[call.cur]
          IN  /\ call.inner.success
              /\ call.inner.error # Null
              /\ after.processingErrors \in
                    {Append(before.processingErrors, ClassifyVectorError(m).message) :
                        m \in ProviderErrors \cup {{"timeout"}, {"API key"}}}
              /\ after.vectorstore = NoStore
              /\ after.vectorStoreStatus = StatusDegraded
              /\ after.documents = call.splits]_vars

\* C2: when an ingestion settles with success (ready or degraded), the
\* session's chunk list is the full chunk list of the document just uploaded,
\* the document named by pdfName, for every tier and with or without an
\* earlier document in the session.
C2_FullChunkList ==
    [][\A c \in Calls : (Settles(c) /\ up'[c].inner.success) =>
          LET call == up'[c]
              after == userSessions'[call.cur]
          IN  /\ after.pdfName = call.fileName
              /\ after.documents = call.splits]_vars

StatusCreating == "creating"
StatusError == "error"
StatusEdges ==
    {<<StatusNotCreated, StatusCreating>>,
     <<StatusCreating, StatusReady>>,
     <<StatusCreating, StatusDegraded>>,
     <<StatusReady, StatusNotCreated>>,
     <<StatusDegraded, StatusNotCreated>>,
     <<StatusError, StatusNotCreated>>}

\* C3: the index status of a session changes only along not_created ->
\* creating -> {ready | degraded} -> not_created, and an upload that gets to
\* the index build ends with the session ready or degraded.
C3_StatusPath ==
    [][/\ \A sid \in DOMAIN userSessions :
            LET a == userSessions[sid].vectorStoreStatus
                b == userSessions'[sid].vectorStoreStatus
            IN  a # b => <<a, b>> \in StatusEdges
       /\ \A c \in Calls :
            (Settles(c) /\ up[c].pc \in BuildPcs) =>
                userSessions'[up[c].cur].vectorStoreStatus
                    \in {StatusReady, StatusDegraded}]_vars

CleanStatus ==
    [session_exists |-> TRUE,
     vectorstore_available |-> FALSE,
     pdf_uploaded |-> FALSE,
     current_pdf |-> Null,
     vector_store_status |-> StatusNotCreated,
     documents_count |-> 0,
     processing_errors |-> <<>>]

\* C4: reset of an existing session followed by a status read reports
\* not_created, zero chunks, no document name, no index and an empty error
\* log, with the session still in the store.
C4_ResetClean ==
    [][\A sid \in DOMAIN userSessions :
          ResetSession(sid) => DetailedSessionStatus(sid)' = CleanStatus]_vars

\* the replies of a query that ran neither retrieval nor the model
Refusals == {"requires_upload", "upload_first", "ai_unavailable"}

\* C5: a query that arrives while an ingestion for its session is running is
\* refused: it never gets to retrieval or to the model call.
C5_MidIngestRefused ==
    \A q \in Queries :
        qry[q].midIngest =>
            /\ qry[q].pc \notin {"vsearch", "llm"}
            /\ qry[q].pc = "done" => qry[q].result \in Refusals

\* C6: once the overall timer has returned the timeout failure of a call,
\* the later steps of that call's pipeline change no field of the session.
C6_AbandonedNoOp ==
    [][\A c \in Calls :
          (up[c].result.error = "PDF processing timed out" /\ up'[c] # up[c]) =>
              userSessions' = userSessions]_vars

\* C7: two ingestion calls on the same session are never both in index
\* construction.
C7_ExclusiveIndexSlot ==
    \A c, d \in Calls :
        (c # d /\ up[c].pc \in BuildPcs /\ up[d].pc \in BuildPcs) =>
            up[c].cur # up[d].cur

\* C8: at most one model client is ever constructed and every caller of
\* initializeLLM / generateResponse obtains that same instance.
C8_SingleClient ==
    /\ constructed <= 1
    /\ \A g, h \in Callers :
          (gen[g].obtained # 0 /\ gen[h].obtained # 0) =>
              gen[g].obtained = gen[h].obtained

\* C9: generateResponse with an empty context or the 'nothing found'
\* sentinel returns the fixed 'no relevant information' answer with success
\* and invokes the model zero times.
C9_SentinelAnsweredLocally ==
    \A g \in Callers :
        (/\ gen[g].op = "generateResponse"
         /\ gen[g].pc = "done"
         /\ gen[g].context \in {EmptyContext, Sentinel}) =>
            /\ gen[g].result = Returned(TRUE, NoInformationAnswer)
            /\ gen[g].invocations = 0

\* C10: when the timer wins the race against the model call,
\* generateResponse returns the timeout apology as a failure result (it does
\* not throw), and the steps of the call leave the sessions, the uploads and
\* the queries as they are.
C10_TimeoutApology ==
    [][\A g \in Callers :
          gen'[g] # gen[g] =>
              /\ ingestVars' = ingestVars
              /\ gen'[g].settled = "timer" =>
                    gen'[g].result = Returned(FALSE, TimeoutReply)]_vars

C10_Witness ==
    \E g \in Callers :
        /\ gen[g].pc = "done"
        /\ gen[g].settled = "timer"
        /\ gen[g].invocations = 1
        /\ gen[g].result = Returned(FALSE, TimeoutReply)


\* C11: when the creation of the model client fails, generateResponse
\* returns a failure result (it does not throw), whatever the context, and
\* the client variable stays unset.
C11_InitFailureReturned ==
    \A g \in Callers :
        (/\ gen[g].op = "generateResponse"
         /\ gen[g].pc = "done"
         /\ gen[g].pending = CreateFailed) =>
            /\ gen[g].result.kind = "returned"
            /\ ~gen[g].result.success
            /\ llm = 0


\* the four user-facing messages of a failed model call
FixedReplies == {TimeoutReply, OverloadReply, ConfigReply, GenericReply}

\* C12: every model call that ends in failure gives the user one of the four
\* fixed messages, chosen with precedence timeout, then quota / rate limit,
\* then authentication / API key, then generic.
C12_FailureMessages ==
    [][\A g \in Callers, out \in ModelOutcomes \ {Reply} :
          GenSettle(g, out) =>
              LET text == gen'[g].result.text
                  isTimeout == Includes(out.msg, "timeout")
                  isQuota == Includes(out.msg, "quota") \/ Includes(out.msg, "rate limit")
                  isAuth == Includes(out.msg, "authentication") \/ Includes(out.msg, "API key")
              IN  /\ gen'[g].result.kind = "returned"
                  /\ text \in FixedReplies
                  /\ isTimeout => text = TimeoutReply
                  /\ (~isTimeout /\ isQuota) => text = OverloadReply
                  /\ (~isTimeout /\ ~isQuota /\ isAuth) => text = ConfigReply
                  /\ (~isTimeout /\ ~isQuota /\ ~isAuth) => text = GenericReply]_vars


\* C13: a query with no session id, an unknown session id, or a session
\* whose status is not_created gets the upload instruction with
\* requires_upload, without client initialization, retrieval or model call.
C13_NoDocumentNoProvider ==
    [][\A q \in Queries, sid \in DOMAIN userSessions \cup {NoId, StaleId} :
          (/\ QueryStart(q, sid)
           /\ \/ sid \notin DOMAIN userSessions
              \/ userSessions[sid].vectorStoreStatus = StatusNotCreated) =>
              /\ qry'[q].pc = "done"
              /\ qry'[q].result = "requires_upload"
              /\ pdfLlm' = pdfLlm]_vars

C13_Witness ==
    \E q \in Queries :
        /\ qry[q].pc = "done"
        /\ qry[q].result = "requires_upload"
        /\ qry[q].sid \in DOMAIN userSessions
        /\ userSessions[qry[q].sid].vectorStoreStatus = StatusNotCreated
        /\ pdfLlm = 0


\* C14: an upload rejected by validation (empty buffer, extension outside the
\* allowed list, more than 10 MB) ends at once with a failure, creates no
\* session, changes no session and starts no provider call.
C14_ValidationRejects ==
    [][\A c \in Calls :
          (\/ \E file \in RouteFiles, sid \in DOMAIN userSessions \cup {NoId, StaleId} :
                /\ file.present
                /\ \/ file.size = 0
                   \/ file.ext \notin SupportedExtensions
                   \/ file.size > MaxFileSize
                /\ UploadRouteReject(c, file, sid)
           \/ \E f \in {FileOf(c), EmptyName},
                 sid \in DOMAIN userSessions \cup {NoId, StaleId} :
                UploadStart(c, 0, f, sid)) =>
              /\ up'[c].pc = "done"
              /\ ~up'[c].result.success
              /\ up'[c].cur = NoId
              /\ userSessions' = userSessions
              /\ issued' = issued
              /\ pdfLlm' = pdfLlm
              /\ \A d \in Calls \ {c} : up'[d] = up[d]]_vars

C14_Witness ==
    \E c, d \in Calls :
        /\ up[c].pc = "done"
        /\ up[c].result.error = "Internal processing failed"
        /\ up[c].fileName # EmptyName
        /\ up[d].pc = "done"
        /\ up[d].result.error = "File size must be less than 10MB"
        /\ userSessions = <<>>


\* the terms of a query: its blank-separated words of three characters or
\* more, in lower case
TermsOf(query) ==
    LET words == SplitWhitespace(ToLowerCase(query)) IN
    {words[k] : k \in {j \in DOMAIN words : Len(words[j]) >= MinWordLength}}

\* C15: in a session without index that holds chunks, a query is answered
\* by the text search over the chunks, and a chunk in which a term of the
\* query occurs is among the results (unless the results are full).
C15_DegradedQueryable ==
    srch.op = "searchDocuments" =>
        LET n == srch.args[1]
            query == srch.args[2]
            chunks == srch.result.chunks
        IN  \A t \in TermsOf(query), i \in 1..n :
                IncludesText(ToLowerCase(PageContent(i)), t) =>
                    /\ srch.result.kind = "results"
                    /\ \/ \E k \in DOMAIN chunks : chunks[k] = i
                       \/ Len(chunks) = TopK


\* C16: get, update, reset, delete and the status reads, called with an id
\* the map does not hold (absent, empty, blank), return null, false or
\* 'session does not exist', create no session and change no session.
C16_TotalOnAbsentIds ==
    [][/\ \A id \in StoreIdInputs \ DOMAIN store :
            (\/ SessionGet(id)
             \/ \E updates \in Updates : SessionUpdate(id, updates)
             \/ SessionReset(id)
             \/ SessionDelete(id)
             \/ SessionStatus(id)
             \/ SessionDetailedStatus(id)) =>
                /\ store' = store
                /\ storeIssued' = storeIssued
                /\ ret'.op = "getSession" => ret'.value = Null
                /\ ret'.op \in {"updateSession", "resetSession", "deleteSession"} =>
                      ret'.value = FALSE
                /\ ret'.op \in {"getSessionStatus", "getDetailedSessionStatus"} =>
                      /\ ~ret'.value.session_exists
                      /\ ~ret'.value.pdf_uploaded
                      /\ ret'.value.current_pdf = Null
       /\ \A sid \in (SessionIds \cup InvalidIds) \ DOMAIN userSessions :
            GetSession(sid) =>
                /\ userSessions' = userSessions
                /\ issued' = issued
                /\ ret'.value = Null]_vars

C16_Witness ==
    /\ ret.op = "updateSession"
    /\ ret.id = BlankId
    /\ ret.value = FALSE
    /\ DOMAIN store = {1, 2}


\* C17: every operation that reads or writes a session (get, update, reset,
\* status, ingestion, query) sets its lastAccessed to the current time, so
\* lastAccessed never decreases and is never earlier than createdAt.
C17_TouchOnAccess ==
    [][/\ \A id \in DOMAIN store :
            /\ (\/ SessionGet(id)
                \/ \E updates \in Updates : SessionUpdate(id, updates)
                \/ SessionReset(id)
                \/ SessionStatus(id)
                \/ SessionDetailedStatus(id)) =>
                    store'[id].lastAccessed = now
            /\ id \in DOMAIN store' =>
                    /\ store'[id].lastAccessed >= store[id].lastAccessed
                    /\ store'[id].lastAccessed >= store'[id].createdAt
       /\ \A sid \in DOMAIN userSessions :
            /\ (\/ ResetSession(sid)
                \/ \E q \in Queries : QueryStart(q, sid)
                \/ \E q \in Queries : qry[q].sid = sid /\ QueryAfterInit(q)
                \/ \E c \in Calls, buf \in BufLens \ {0} :
                        UploadStart(c, buf, FileOf(c), sid)
                \/ userSessions'[sid] # userSessions[sid]) =>
                    userSessions'[sid].lastAccessed = now
            /\ userSessions'[sid].lastAccessed >= userSessions[sid].lastAccessed
            /\ userSessions'[sid].lastAccessed >= userSessions'[sid].createdAt]_vars

C17_Witness ==
    \E sid \in DOMAIN userSessions :
        /\ userSessions[sid].createdAt = 0
        /\ userSessions[sid].lastAccessed = 25
        /\ userSessions[sid].pdfName # Null
        /\ \E q \in Queries : qry[q].sid = sid /\ qry[q].pc = "llm"


\* C18: a sweep removes exactly the sessions idle for more than the
\* threshold, returns their number, and leaves every other session present
\* and unchanged.
C18_SweepExact ==
    [][/\ SessionCleanup =>
            LET idle == {id \in DOMAIN store :
                            now - store[id].lastAccessed > SessionCleanupHours}
            IN  /\ DOMAIN store' = DOMAIN store \ idle
                /\ \A id \in DOMAIN store' : store'[id] = store[id]
                /\ ret'.value = Count(Cardinality(idle))
       /\ Cleanup =>
            LET idle == {sid \in DOMAIN userSessions :
                            now - userSessions[sid].lastAccessed > SessionCleanupHours}
            IN  /\ DOMAIN userSessions' = DOMAIN userSessions \ idle
                /\ \A sid \in DOMAIN userSessions' :
                        userSessions'[sid] = userSessions[sid]
                /\ ret'.value = Count(Cardinality(idle))]_vars


\* the facts a strategy is selected by
HasIndex == ValidVectorStore(found.vectorStore)
HasChunks == found.documents # <<>>
TrimmedLength == Len(TrimText(found.query))
Strategy == found.result.searchType

\* C19 (as stated): with an index or chunks at hand, smartSearch answers a
\* short query by vector search alone if an index exists and else by lexical
\* search, a long query by hybrid search if both exist and else by lexical
\* search and never by vector search alone, and a medium query with both by
\* hybrid search.
C19_StrategySelection ==
    (found.op = "smartSearch" /\ (HasIndex \/ HasChunks)) =>
        /\ TrimmedLength < ShortQueryLength =>
                Strategy = (IF HasIndex THEN "vector" ELSE "text")
        /\ TrimmedLength > LongQueryLength =>
                /\ Strategy # "vector"
                /\ Strategy = (IF HasIndex /\ HasChunks THEN "hybrid" ELSE "text")
        /\ (/\ TrimmedLength >= ShortQueryLength
            /\ TrimmedLength <= LongQueryLength
            /\ HasIndex /\ HasChunks) => Strategy = "hybrid"

\* What the code does: as C19 states, except that a long query with an index
\* and no chunks is refused without any search, as is every query with
\* neither.
StrategySelectionOfTheCode ==
    found.op = "smartSearch" =>
        /\ (~HasIndex /\ ~HasChunks) =>
                /\ Strategy = "none"
                /\ ~found.result.success
        /\ (TrimmedLength < ShortQueryLength /\ (HasIndex \/ HasChunks)) =>
                Strategy = (IF HasIndex THEN "vector" ELSE "text")
        /\ (TrimmedLength > LongQueryLength /\ (HasIndex \/ HasChunks)) =>
                /\ Strategy # "vector"
                /\ Strategy = (IF HasIndex /\ HasChunks THEN "hybrid"
                               ELSE IF HasChunks THEN "text" ELSE "none")
                /\ Strategy = "none" =>
                        /\ ~found.result.success
                        /\ found.result.results = <<>>
        /\ (/\ TrimmedLength >= ShortQueryLength
            /\ TrimmedLength <= LongQueryLength
            /\ HasIndex /\ HasChunks) => Strategy = "hybrid"

\* a query of exactly the short threshold, with blanks around it, answered
\* by hybrid search over an index and chunks
C19_Witness ==
    /\ found.op = "smartSearch"
    /\ HasIndex /\ HasChunks
    /\ TrimmedLength = ShortQueryLength
    /\ Len(found.query) > ShortQueryLength
    /\ Strategy = "hybrid"
    /\ Len(found.result.results) > 1

\* the normalized content prefix: the first 100 characters, lower-cased,
\* whitespace collapsed
NormalizedPrefix(content) ==
    CollapseWhitespace(ToLowerCase(SubSeq(content, 1,
        IF Len(content) < KeyPrefixLength THEN Len(content) ELSE KeyPrefixLength)))

\* C20: the results of hybridSearch hold no two entries with the same
\* normalized content prefix.
C20_NoDuplicatePrefix ==
    found.result.searchType = "hybrid" =>
        \A i, j \in DOMAIN found.result.results :
            i # j => NormalizedPrefix(found.result.results[i].content)
                        # NormalizedPrefix(found.result.results[j].content)

\* the vector list holds the same passage twice up to case and blanks, the
\* lexical list holds it too, and other passages are returned beside it
C20_Witness ==
    /\ found.op = "hybridSearch"
    /\ found.response.success
    /\ Len(found.response.results) = 2
    /\ found.response.results[1].content # found.response.results[2].content
    /\ NormalizedPrefix(found.response.results[1].content)
            = NormalizedPrefix(found.response.results[2].content)
    /\ Len(found.documents) = Len(Passages)
    /\ Len(found.result.results) >= 2


\* the words of a query, and whether a content holds one of them (case ignored)
WordsOf(query) ==
    {w \in {SplitWhitespace(ToLowerCase(query))[i] :
                i \in DOMAIN SplitWhitespace(ToLowerCase(query))} : w # <<>>}
HoldsWordOf(content, query) ==
    \E w \in WordsOf(query) : IncludesText(ToLowerCase(content), w)

\* C21: a lexical search whose query matches no term of the chunks, and a
\* vector search issued without an index, return success with an empty
\* result list, not an error.
C21_EmptyNotError ==
    /\ (/\ found.op = "textSearch"
        /\ found.documents # <<>>
        /\ WordsOf(found.query) # {}
        /\ \A i \in DOMAIN found.documents :
                ~HoldsWordOf(found.documents[i], found.query)) =>
            (found.result.success /\ found.result.results = <<>>)
    /\ (/\ found.op = "vectorSearch"
        /\ WordsOf(found.query) # {}
        /\ ~ValidVectorStore(found.vectorStore)) =>
            (found.result.success /\ found.result.results = <<>>)


\* the place of a content in the chunk list
PlaceOf(documents, content) == CHOOSE k \in DOMAIN documents : documents[k] = content

\* C22: lexical search returns at most K results, each with a positive
\* score, in non-increasing score order, chunks of equal score in document
\* order.
C22_LexicalTopK ==
    /\ (found.op = "textSearch" /\ found.result.success) =>
            LET results == found.result.results IN
            /\ Len(results) <= found.options.maxResults
            /\ \A i \in DOMAIN results :
                    /\ results[i].score > 0
                    /\ \E k \in DOMAIN found.documents :
                            found.documents[k] = results[i].content
            /\ \A i, j \in DOMAIN results :
                    i < j =>
                        /\ results[i].score >= results[j].score
                        /\ results[i].score = results[j].score =>
                                PlaceOf(found.documents, results[i].content)
                                    < PlaceOf(found.documents, results[j].content)
    /\ (srch.op = "searchDocuments" /\ srch.result.kind = "results") =>
            LET chunks == srch.result.chunks
                query == srch.args[2]
            IN  /\ Len(chunks) <= TopK
                /\ \A i \in DOMAIN chunks :
                        /\ chunks[i] \in 1..srch.args[1]
                        /\ ChunkScore(chunks[i], query) > 0
                /\ \A i, j \in DOMAIN chunks :
                        i < j =>
                            /\ ChunkScore(chunks[i], query) >= ChunkScore(chunks[j], query)
                            /\ ChunkScore(chunks[i], query) = ChunkScore(chunks[j], query)
                                    => chunks[i] < chunks[j]

\* three chunks are returned of more that match, the first two of equal score
C22_Witness ==
    /\ found.op = "textSearch"
    /\ found.result.success
    /\ Len(found.documents) = Len(Passages)
    /\ Len(found.result.results) = MaxSearchResults
    /\ found.result.results[1].score = found.result.results[2].score
    /\ found.result.results[2].score > found.result.results[3].score


\* a query that is one term: no blank in it, and not empty
IsTerm(query) == query # <<>> /\ \A i \in DOMAIN query : query[i] \notin SpaceChars

\* C23: a lexical query for a term that is present verbatim in the text
\* returns a chunk containing it as the first result, with a positive score,
\* terms of fewer than 3 characters included.
C23_VerbatimTermFound ==
    /\ (/\ found.op = "textSearch"
        /\ IsTerm(found.query)
        /\ \E k \in DOMAIN found.documents :
                IncludesText(found.documents[k], found.query)) =>
            /\ found.result.success
            /\ found.result.results # <<>>
            /\ found.result.results[1].score > 0
            /\ IncludesText(found.result.results[1].content, found.query)
    /\ (/\ srch.op = "searchDocuments"
        /\ IsTerm(srch.args[2])
        /\ \E k \in 1..srch.args[1] : IncludesText(PageContent(k), srch.args[2])) =>
            /\ srch.result.kind = "results"
            /\ srch.result.chunks # <<>>
            /\ IncludesText(PageContent(srch.result.chunks[1]), srch.args[2])


\* C24: an upload whose text is empty or whitespace-only (its cleaned text
\* has length 0), or whose chunking yields zero chunks, ends there in a
\* failure: no index build follows and no session changes.
C24_EmptyDocumentFails ==
    [][\A c \in Calls :
        /\ ExtractSettle(c, TRUE, 0) =>
                /\ up'[c].pc = "done"
                /\ ~up'[c].inner.success
                /\ up'[c].inner.error \in {"PDF file appears to be empty",
                                           "Failed to extract text from PDF"}
                /\ userSessions' = userSessions
        /\ UploadAfterSplit(c, 0) =>
                /\ up'[c].pc = "done"
                /\ ~up'[c].inner.success
                /\ up'[c].inner.error = "Failed to process document chunks"
                /\ userSessions' = userSessions]_vars


\* the result of processPdfBuffer when its timer has won the race
TimedOut(r) == ~r.success /\ r.error = "PDF processing timed out"

\* C25: the overall timer of an upload is not shorter for a larger buffer,
\* and when it expires before the pipeline settles the upload's result is the
\* timeout failure, whatever the pipeline does afterwards.
C25_TimeoutDistinct ==
    [][/\ \A small, large \in BufLens :
            small <= large => OverallTimeout(small) <= OverallTimeout(large)
       /\ \A c \in Calls :
            /\ UploadTimeout(c) => TimedOut(up'[c].result)
            /\ TimedOut(up[c].result) => up'[c].result = up[c].result]_vars

\* the timer expired and the pipeline went on to build the index
C25_Witness ==
    \E c \in Calls :
        /\ TimedOut(up[c].result)
        /\ up[c].pc = "done"
        /\ up[c].inner.success
        /\ userSessions[up[c].cur].vectorStoreStatus = StatusReady


\* the sessions of a map that a step removed or altered
ChangedSessions(before, after) ==
    {B \in DOMAIN before : B \notin DOMAIN after \/ after[B] # before[B]}

\* the step is a sweep of expired sessions (cleanup / cleanupOldSessions),
\* the one operation that is about all sessions
IsSweep ==
    /\ ret'.op \in {"PdfProcessingService.cleanup", "cleanup"}
    /\ ret'.id = NoId
    /\ up' = up /\ qry' = qry /\ now' = now

\* C26: an operation on one session leaves every field of every other
\* session unchanged: a step that is not a sweep alters at most one session,
\* the one its call names, and only in the store it belongs to.
C26_SessionIsolation ==
    [][~IsSweep =>
        LET pdf == ChangedSessions(userSessions, userSessions')
            sto == ChangedSessions(store, store')
        IN  /\ Cardinality(pdf \cup sto) <= 1
            /\ pdf = {} \/ sto = {}
            /\ (pdf # {} \/ sto # {}) => store' = store \/ userSessions' = userSessions
            /\ \A c \in Calls : up'[c] # up[c] => pdf \subseteq {up'[c].cur}
            /\ \A q \in Queries : qry'[q] # qry[q] => pdf \subseteq {qry'[q].sid}
            /\ sto \subseteq {ret'.id}
            /\ (/\ ret'.op = "PdfProcessingService.getSession"
                /\ ret'.op # ret.op \/ ret'.id # ret.id)
                    => pdf \subseteq {ret'.id}]_vars

\* one session holds a document and was used later than the other, which is
\* as it was created
C26_Witness ==
    \E A, B \in DOMAIN userSessions :
        /\ A # B
        /\ userSessions[A].pdfName # Null
        /\ userSessions[A].lastAccessed > userSessions[B].createdAt
        /\ userSessions[B].lastAccessed = userSessions[B].createdAt
        /\ userSessions[B].pdfName = Null
        /\ \E q \in Queries : qry[q].sid = A /\ qry[q].pc = "done"


\* C27: during an index build every batch add, the first batch included, is
\* attempted at most 3 times; a success stops the retries of that batch; when
\* the last allowed attempt fails, the last error is propagated and the build
\* is declared failed without a further wait or attempt.
C27_RetryCeiling ==
    [][/\ \A b \in DOMAIN build'.attempts : build'.attempts[b] <= BatchRetries
       /\ \A b \in DOMAIN build.attempts :
            b < build.batch => build'.attempts[b] = build.attempts[b]
       /\ (AddDocumentsSettle(Ok) \/ FromDocumentsSettle(Ok)) =>
            /\ build'.pc # "delay"
            /\ build'.waits = build.waits
            /\ build'.attempts[build.batch] = build.attempts[build.batch]
       /\ \A out \in ProviderOutcomes \ {Ok} :
            (build.attempt = BatchRetries /\ AddDocumentsSettle(out)) =>
                /\ build'.pc = "done"
                /\ ~build'.result.success
                /\ out.msg \subseteq build'.result.error
                /\ build'.waits = build.waits
                /\ build'.attempts = build.attempts
       /\ build.pc = "done" => build' = build
       /\ \A c \in Calls :
            /\ up'[c].retryCount <= MaxRetries
            /\ up'[c].pc \in {"buildSmall", "backoff"} => up'[c].retryCount < MaxRetries
            /\ Len(up'[c].waits) < MaxRetries
            /\ UploadBuildSettle(c, Ok) =>
                /\ up'[c].pc = "done"
                /\ up'[c].retryCount = up[c].retryCount
                /\ up'[c].waits = up[c].waits
                /\ userSessions'[up[c].cur].vectorStoreStatus = StatusReady
            /\ \A out \in BuildOutcomes \ {Ok} :
                (up[c].retryCount = MaxRetries - 1 /\ UploadBuildSettle(c, out)) =>
                    /\ up'[c].pc = "done"
                    /\ up'[c].waits = up[c].waits
                    /\ userSessions'[up[c].cur].vectorStoreStatus = StatusDegraded
                    /\ userSessions'[up[c].cur].vectorstore = NoStore
                    /\ up'[c].inner = Success(up[c].cur, Warning(out.msg))
            /\ up[c].pc = "done" =>
                /\ up'[c].retryCount = up[c].retryCount
                /\ up'[c].waits = up[c].waits]_vars

\* the third attempt of a later batch has failed and the build was given up
C27_Witness ==
    /\ build.pc = "done"
    /\ ~build.result.success
    /\ build.batch > 1
    /\ build.attempts[build.batch] = BatchRetries
    /\ Len(build.waits) = BatchRetries - 1


\* the wait, in ms, the backoff rule puts before retry number n
ExponentialWait(n) == (2 ^ n) * 1000

\* the waits of the small-document loop of _processInternal follow the rule
SmallTierWaitsExponential ==
    \A c \in Calls : \A n \in DOMAIN up[c].waits :
        up[c].waits[n] = ExponentialWait(n)

\* C28: the wait before retry number n of a failed batch add is 2^n seconds
\* (2 s before the second attempt, 4 s before the third) in every code path
\* that retries index construction.
C28_ExponentialBackoff ==
    /\ SmallTierWaitsExponential
    /\ \A k \in DOMAIN build.waits :
            build.waits[k].ms = ExponentialWait(build.waits[k].retry - 1)


\* ceil(n / 100): the least s with n <= 100 s
Stride(n) == CHOOSE s \in 1..n : n <= MaxChunks * s /\ n > MaxChunks * (s - 1)

\* C29: for n > 200 chunks the index is built from the chunks at positions
\* 0, s, 2s, ... with s = ceil(n / 100); the sample has at most 100 chunks,
\* keeps document order and holds no chunk twice; for n <= 200 every chunk is
\* indexed.
C29_StrideSampling ==
    sampled # NoSample =>
        LET n == sampled.n
            p == sampled.positions
        IN  /\ Len(p) = IndexedCount(n)
            /\ \A k \in DOMAIN p : p[k] \in 0..(n - 1)
            /\ \A j, k \in DOMAIN p : j < k => p[j] < p[k]
            /\ n > LargeTierMin =>
                /\ \A k \in DOMAIN p : p[k] = (k - 1) * Stride(n)
                /\ p[Len(p)] + Stride(n) >= n
                /\ Len(p) <= MaxChunks
            /\ n <= LargeTierMin => \A i \in 0..(n - 1) : \E k \in DOMAIN p : p[k] = i

\* a document just above the ceiling: every third chunk, 67 of 201
C29_Witness ==
    /\ sampled.n = LargeTierMin + 1
    /\ Len(sampled.positions) = 67
    /\ sampled.positions[2] = 3


\* the relevance score a returned result may not fall below
ScoreFloor(minScore) == IF minScore > MinRelevance THEN minScore ELSE MinRelevance

\* vectorSearch returns at most K of the hits, in the order of the index
VectorResultsInIndexOrder ==
    (found.op = "vectorSearch" /\ found.result.success) =>
        LET results == found.result.results
            hits == found.response.results
        IN  /\ Len(results) <= found.options.maxResults
            /\ \E place \in [DOMAIN results -> DOMAIN hits] :
                    /\ \A i \in DOMAIN results : hits[place[i]] = results[i]
                    /\ \A i, j \in DOMAIN results : i < j => place[i] < place[j]

\* C30: vector search returns at most K results, in the order the index
\* returned them, each with a relevance score not below the minimum (the
\* caller's minScore and the floor 0.1) and trimmed content of at least 50
\* characters, also when a raw score is exactly 0.
C30_VectorFiltered ==
    /\ VectorResultsInIndexOrder
    /\ (found.op = "vectorSearch" /\ found.result.success) =>
            \A i \in DOMAIN found.result.results :
                /\ found.result.results[i].score >= ScoreFloor(found.options.minScore)
                /\ Len(TrimText(found.result.results[i].content)) >= MinContentLength


\* the two sub-searches of the hybridSearch call recorded in found
HybridVector ==
    VectorSearch(found.vectorStore, found.query, found.response,
                 CeilTenths(MaxSearchResults, 7))
HybridText == TextSearch(found.documents, found.query, CeilTenths(MaxSearchResults, 5))

\* the scores a sub-search gave to the entry of a key; a failed sub-search
\* gives none
ScoresOf(sub, key) ==
    {sub.results[i].score :
        i \in {j \in DOMAIN sub.results : GenerateResultKey(sub.results[j].content) = key}}

\* the hybrid list is sorted by combined score and truncated, and a failed
\* sub-search does not fail the hybrid search
HybridSortedAndTruncated ==
    found.op = "hybridSearch" =>
        LET results == found.result.results IN
        /\ found.result.success
        /\ Len(results) <= MaxSearchResults
        /\ \A i, j \in DOMAIN results : i < j => results[i].score >= results[j].score
        /\ \A i \in DOMAIN results :
                \/ ScoresOf(HybridVector, GenerateResultKey(results[i].content)) # {}
                \/ ScoresOf(HybridText, GenerateResultKey(results[i].content)) # {}

\* C31: an entry found only by vector search has combined score 1.2 x its
\* vector score, one found only by lexical search 0.8 x its lexical score, one
\* found by both the sum of the two; the list is in non-increasing order of
\* combined score and has at most the requested number of entries; a failed
\* sub-search contributes nothing and does not fail the hybrid search.
\* Scores are in thousandths, combined scores in ten-thousandths.
C31_HybridCombination ==
    /\ HybridSortedAndTruncated
    /\ found.op = "hybridSearch" =>
        \A i \in DOMAIN found.result.results :
            LET entry == found.result.results[i]
                key == GenerateResultKey(entry.content)
                vector == ScoresOf(HybridVector, key)
                text == ScoresOf(HybridText, key)
            IN  entry.score \in
                    {12 * v + 8 * t : v \in (IF vector = {} THEN {0} ELSE vector),
                                      t \in (IF text = {} THEN {0} ELSE text)}


\* the entries of a text
EntriesOf(text) == {k \in DOMAIN text : text[k].part = "entry"}

\* the context block has at most 5 entries and stays within the budget
ContextWithinLimits ==
    applied.op = "formatSearchResults" =>
        /\ Cardinality(EntriesOf(applied.value.handed)) <= MaxFormatted
        /\ TextLength(applied.value.handed) <= MaxSearchResultsLength

\* C32: the context block handed to the model holds at most 5 result entries
\* however many were retrieved, never exceeds the character budget, and when
\* the budget would be exceeded whole entries are dropped: no entry is cut in
\* the middle.
C32_ContextWholeEntries ==
    /\ ContextWithinLimits
    /\ applied.op = "formatSearchResults" =>
            \A k \in EntriesOf(applied.value.handed) :
                LET piece == applied.value.handed[k]
                    result == applied.args[piece.index]
                IN  piece.len = EntryLength(result)


\* the pieces of a result that come from the model: all but the notice and
\* the disclaimer
OwnPieces(text) ==
    SubSeq(text, 1, Cardinality({k \in DOMAIN text :
                                    text[k].part \notin {"notice", "disclaimer"}}))

\* the places of the notice and of the disclaimer in a result, 0 if absent
PlaceOfPart(text, part) ==
    IF \E k \in DOMAIN text : text[k].part = part
    THEN CHOOSE k \in DOMAIN text : text[k].part = part ELSE 0

\* C33: a non-empty response is trimmed; a trimmed text above the maximum
\* length is cut to exactly that length and the truncation notice follows it;
\* a text that holds a generic phrase gets the disclaimer after it; all these
\* results have success = true; an empty or blank response is a generation
\* failure, distinct from the timeout failure.
C33_PostProcessing ==
    applied.op = "generateResponse" =>
        LET trimmed == TrimPieces(applied.args)
            length == TextLength(trimmed)
            out == applied.value
            own == OwnPieces(out.response)
            notice == PlaceOfPart(out.response, "notice")
            disclaimer == PlaceOfPart(out.response, "disclaimer")
        IN  /\ length = 0 =>
                /\ ~out.success
                /\ out.error = EmptyResponseError
                /\ out.error # HandleLLMError(TimerWins.msg)
            /\ length > 0 =>
                /\ out.success
                /\ own[1].part # "blank" /\ own[Len(own)].part # "blank"
                /\ TextLength(own) = (IF length > MaxResponseLength
                                      THEN MaxResponseLength ELSE length)
                /\ \A k \in DOMAIN own :
                        /\ own[k].part = trimmed[k].part
                        /\ own[k].len <= trimmed[k].len
                        /\ k < Len(own) => own[k].len = trimmed[k].len
                /\ (notice # 0) = (length > MaxResponseLength)
                /\ notice # 0 => notice = Len(own) + 1
                /\ (disclaimer # 0) =
                        (\E k \in DOMAIN own :
                            /\ own[k].part \in {"phrase", "Phrase"}
                            /\ own[k].len = PhraseLength)
                /\ disclaimer # 0 => disclaimer = Len(out.response)

\* a padded response above the maximum length with a capitalised generic
\* phrase before the cut: it is cut, and carries the notice and the disclaimer
C33_Witness ==
    /\ applied.op = "generateResponse"
    /\ TextLength(TrimPieces(applied.args)) > MaxResponseLength
    /\ applied.args[1].part = "blank"
    /\ applied.value.success
    /\ \E k \in DOMAIN applied.args : applied.args[k].part = "Phrase"
    /\ PlaceOfPart(applied.value.response, "notice") # 0
    /\ PlaceOfPart(applied.value.response, "disclaimer") = Len(applied.value.response)


\* the three tiers in the order of growing size
TierRank(tier) == IF tier \in {"small", "standard"} THEN 1 ELSE IF tier = "medium" THEN 2 ELSE 3

\* the tier boundaries leave no gap and no overlap, and the chunk size does
\* not decrease with the text length
TiersPartitionAndChunksGrow ==
    /\ applied.op \in {"getOptimalProcessingConfig", "getOptimalConfig"} =>
            /\ applied.value.tier \in {"small", "standard", "medium", "large"}
            /\ \A smaller \in 0..applied.args :
                    LET below == IF applied.op = "getOptimalConfig"
                                 THEN GetOptimalConfig(smaller)
                                 ELSE GetOptimalProcessingConfig(smaller)
                    IN  TierRank(below.tier) <= TierRank(applied.value.tier)
    /\ applied.op = "getOptimalProcessingConfig" =>
            \A smaller \in 0..applied.args :
                GetOptimalProcessingConfig(smaller).chunkSize <= applied.value.chunkSize

\* C34: the chunk size and the batch size chosen for a document are both
\* non-decreasing in its total text length across the three tiers, and the
\* tier boundaries partition all text lengths without gap or overlap.
C34_TiersMonotone ==
    /\ TiersPartitionAndChunksGrow
    /\ applied.op = "getOptimalProcessingConfig" =>
            \A smaller \in 0..applied.args :
                GetOptimalProcessingConfig(smaller).batchSize <= applied.value.batchSize
    /\ applied.op = "getOptimalConfig" =>
            \A smaller \in 0..applied.args :
                GetOptimalConfig(smaller).batchSize <= applied.value.batchSize


\* the replies that come from the model call
ModelReplies == {"answer", TimeoutReply, OverloadReply, ConfigReply, GenericReply}

\* how far an ingestion call and a query call have come
UploadRank(pc) ==
    IF pc = "idle" THEN 0 ELSE IF pc = "extract" THEN 1 ELSE IF pc = "split" THEN 2
    ELSE IF pc = "embedTest" THEN 3 ELSE IF pc = "done" THEN 5 ELSE 4
QueryRank(pc) ==
    IF pc = "idle" THEN 0 ELSE IF pc = "init" THEN 1 ELSE IF pc = "vsearch" THEN 2
    ELSE IF pc = "llm" THEN 3 ELSE 4

\* the step of call c writes the name or the ready mark of its session
MarksSession(c) ==
    /\ up'[c] # up[c]
    /\ up'[c].cur \in DOMAIN userSessions
    /\ \/ userSessions'[up'[c].cur].pdfName # userSessions[up'[c].cur].pdfName
       \/ /\ userSessions'[up'[c].cur].vectorStoreStatus = StatusReady
          /\ userSessions[up'[c].cur].vectorStoreStatus # StatusReady

\* C35: within one ingestion call extraction completes before chunking
\* starts, chunking before index construction, and the session is marked
\* ready and given its documentName only after index construction has
\* settled; within one query call retrieval completes before formatting and
\* formatting before the model is invoked.
C35_StepsSequential ==
    [][/\ \A c \in Calls :
            /\ UploadRank(up'[c].pc) >= UploadRank(up[c].pc)
            /\ up'[c].pc # "done" => UploadRank(up'[c].pc) <= UploadRank(up[c].pc) + 1
            /\ up'[c].splits # up[c].splits => up[c].pc = "split"
            /\ UploadRank(up'[c].pc) \in {3, 4} => up'[c].splits.len > 0
            /\ MarksSession(c) =>
                /\ up'[c].pc = "done"
                /\ UploadRank(up[c].pc) >= 2
                /\ up'[c].splits.len > 0
                /\ userSessions'[up[c].cur].pdfName = up[c].fileName
                /\ userSessions'[up[c].cur].vectorStoreStatus = StatusReady
                        => up[c].pc \in BuildPcs
       /\ \A q \in Queries :
            /\ QueryRank(qry'[q].pc) >= QueryRank(qry[q].pc)
            /\ qry'[q].pc = "vsearch" => qry'[q].context = Null
            /\ qry'[q].pc = "llm" => qry'[q].context # Null
            /\ qry'[q].context # qry[q].context => qry[q].pc \in {"idle", "init", "vsearch"}
            /\ (qry'[q].result # qry[q].result /\ qry'[q].result \in ModelReplies)
                    => qry[q].pc = "llm"]_vars

\* a call has gone through all its steps and made its session ready, and a
\* query on that session went through the index search to the model
C35_Witness ==
    \E c \in Calls, q \in Queries :
        /\ up[c].pc = "done" /\ up[c].inner.success
        /\ userSessions[up[c].cur].vectorStoreStatus = StatusReady
        /\ userSessions[up[c].cur].pdfName = up[c].fileName
        /\ qry[q].sid = up[c].cur
        /\ qry[q].context = "vector search"
        /\ qry[q].result = "answer"


\* ---------------------------------------------------------------------
\* Index and index status of a session at rest
\* ---------------------------------------------------------------------

\* C36: whenever no ingestion is in flight for a session, the session has
\* an index if and only if its vectorStoreStatus is the ready status, and
\* the reported vectorstore_available flag equals "index present"
C36_IndexMatchesStatus ==
    \A sid \in DOMAIN userSessions :
        ~Ingesting(sid) =>
            /\ (userSessions[sid].vectorstore # NoStore)
                    <=> (userSessions[sid].vectorStoreStatus = StatusReady)
            /\ DetailedSessionStatus(sid).vectorstore_available
                    = (userSessions[sid].vectorstore # NoStore)


\* ---------------------------------------------------------------------
\* smartSearch: when no search is run
\* ---------------------------------------------------------------------

\* smartSearch answered without running vector, lexical or hybrid search
RefusedWithoutSearch ==
    /\ ~found.result.success
    /\ found.result.searchType = "none"
    /\ found.result.results = <<>>

\* C37 (as stated): smartSearch fails without running a search only when
\* neither a valid index nor a chunk is available; with at least one of the
\* two it runs a search strategy, whatever the length of the query.
C37_RefusesOnlyWithoutResources ==
    found.op = "smartSearch" =>
        /\ RefusedWithoutSearch <=> (~HasIndex /\ ~HasChunks)
        /\ (HasIndex \/ HasChunks) => Strategy \in {"hybrid", "vector", "text"}

\* What the code does: smartSearch fails without running a search exactly
\* when neither resource is available ('No search resources available') or
\* when the query is long and there is an index but no chunk ('No suitable
\* search method available'); in every other case it runs a strategy.
RefusesWithoutChunksOnLongQuery ==
    found.op = "smartSearch" =>
        /\ RefusedWithoutSearch <=>
                \/ ~HasIndex /\ ~HasChunks
                \/ HasIndex /\ ~HasChunks /\ TrimmedLength > LongQueryLength
        /\ (~HasIndex /\ ~HasChunks) =>
                found.result.error = "No search resources available"
        /\ (HasIndex /\ ~HasChunks /\ TrimmedLength > LongQueryLength) =>
                found.result.error = "No suitable search method available"
        /\ ~RefusedWithoutSearch => Strategy \in {"hybrid", "vector", "text"}

\* a long query on an index without chunks, refused without a search
LongQueryRefused ==
    /\ found.op = "smartSearch"
    /\ HasIndex /\ ~HasChunks
    /\ TrimmedLength > LongQueryLength
    /\ RefusedWithoutSearch


\* ---------------------------------------------------------------------
\* The session id of a successful ingestion
\* ---------------------------------------------------------------------

\* the step in which call c hands a success to its caller
ReportsSuccess(c) ==
    /\ up[c].result = NoResult
    /\ up'[c].result.success

\* the step in which call c starts with a session id the map does not hold
StartsWithUnknownId(c) ==
    /\ up[c].pc = "idle"
    /\ up'[c].pc = "extract"
    /\ up'[c].sid \notin DOMAIN userSessions

\* C38: an ingestion that reports success returns a session id that is in
\* the map and whose session carries the uploaded file name as pdfName;
\* when the caller's id is not in the map a new session is created, and the
\* id returned on success is the new one, not the caller's.
C38_SuccessReturnsLiveSession ==
    [][\A c \in Calls :
          /\ ReportsSuccess(c) =>
                LET sid == up'[c].result.sessionId IN
                /\ sid \in DOMAIN userSessions'
                /\ userSessions'[sid].pdfName = up'[c].fileName
                /\ up'[c].fileName # EmptyName
                /\ sid = up[c].cur
                /\ up[c].sid \in DOMAIN userSessions \/ sid # up[c].sid
          /\ StartsWithUnknownId(c) =>
                /\ up'[c].cur \notin DOMAIN userSessions
                /\ up'[c].cur \in DOMAIN userSessions'
                /\ up'[c].cur # up'[c].sid
                /\ DOMAIN userSessions' = DOMAIN userSessions \cup {up'[c].cur}]_vars

\* an upload that named a session the map does not hold has reported
\* success with the id of the session created for it
C38_Witness ==
    \E c \in Calls :
        /\ up[c].pc = "done"
        /\ up[c].result.success
        /\ up[c].sid = StaleId
        /\ up[c].result.sessionId \in DOMAIN userSessions
        /\ up[c].result.sessionId # up[c].sid
        /\ userSessions[up[c].result.sessionId].pdfName = up[c].fileName


\* ---------------------------------------------------------------------
\* A retrieval without results, from the search to the answer
\* ---------------------------------------------------------------------

\* the step in which the vector search of query q settles without results
ZeroResults(q) ==
    /\ qry[q].pc = "vsearch"
    /\ qry'[q].pc # "vsearch"
    /\ qry'[q].context = NoVectorResults

\* C39: a retrieval with zero results yields the text that generateResponse
\* takes for "nothing found", so that on every query path it leads to the
\* fixed "no relevant information" answer without a call of the model.
C39_SentinelAgreement ==
    [][/\ FormatSearchResults(<<>>) = <<Piece("sentinel", 0, SentinelLength)>>
       /\ NothingFound(Sentinel)
       /\ \A q \in Queries :
            ZeroResults(q) =>
                /\ NothingFound(qry'[q].context)
                /\ qry'[q].pc = "done"
                /\ qry'[q].result = NoInformationAnswer]_vars

\* the sentinel of formatSearchResults is the one generateResponse
\* recognizes, and a caller that hands it over gets the fixed answer
\* without a call of the model
SentinelRecognized ==
    /\ FormatSearchResults(<<>>) = <<Piece("sentinel", 0, SentinelLength)>>
    /\ NothingFound(Sentinel)
    /\ \A g \in Callers :
          (gen[g].op = "generateResponse" /\ NothingFound(gen[g].context)
                /\ gen[g].pc = "done" /\ gen[g].result.kind = "returned") =>
                /\ gen[g].invocations = 0
                /\ gen[g].result.text = NoInformationAnswer


\* ---------------------------------------------------------------------
\* Failed uploads and the session map
\* ---------------------------------------------------------------------

\* call c has handed a failure to its caller
ReportedFailure(c) ==
    /\ up[c].result # NoResult
    /\ ~up[c].result.success

\* call c has added a session to the map: it works on a session that is
\* not the one its caller named
CreatedSession(c) ==
    /\ up[c].cur # NoId
    /\ up[c].cur # up[c].sid

\* C40: an upload that ends in failure (validation, extraction, splitting
\* or the overall timeout) has added no session to the map.
C40_FailedUploadAddsNoSession ==
    \A c \in Calls : ReportedFailure(c) => ~CreatedSession(c)

\* a rejected input is the one failure that leaves the map as it was
RejectedInputAddsNoSession ==
    [][\A c \in Calls :
          (up[c].pc = "idle" /\ up'[c].pc = "done") =>
                /\ ~up'[c].result.success
                /\ userSessions' = userSessions
                /\ issued' = issued]_vars

====
